---- MODULE Spec2Model ----
(***************************************************************************)
(* State-machine model of the IFC loading core of space-modeller:          *)
(* IfcLoaderService (domain/services/ifc-loader.service.ts), the typed     *)
(* errors of core/errors/app-error.ts, the web-ifc engine the loader       *)
(* drives (IfcAPI: Init, OpenModel, LoadAllGeometry, CloseModel), the      *)
(* IfcModel it returns (domain/models/ifc-model.model.ts) and the older    *)
(* FragmentsService (services/fragments.service.ts), and of three         *)
(* services beside them: ThreejsService (services/threejs.service.ts),     *)
(* AppErrorHandler and LoggerService.                                      *)
(*                                                                         *)
(* Spec is the loader under any order of calls.  SpecGeometry and          *)
(* SpecMaterial load drawn documents on an initialized loader, SpecModel   *)
(* follows the model a load returned, SpecFragments an initialized         *)
(* FragmentsService, SpecFirstCopy the geometry extraction of the first    *)
(* copy of FragmentsService in that file, and SpecSettling is Spec with    *)
(* every pending Init() settling.  SpecThreejs is the render loop of a     *)
(* ThreejsService, SpecHandler an AppErrorHandler with its listeners, and  *)
(* SpecLogger the history of a LoggerService.                              *)
(*                                                                         *)
(* Execution is single-threaded and cooperative.  An async method runs     *)
(* atomically up to its await and again from the await to its end, so each *)
(* async method is two actions: the call (up to the await) and the resume  *)
(* (from the settled await to the return or throw).                        *)
(***************************************************************************)
EXTENDS Integers, Sequences, FiniteSets, Bags, TLC

\* ------------------------------------------------------------------ bounds
\* IfcAPI instances created over the life of the process.
MaxEngines == 2
\* loadIfcFile calls suspended at the file read at the same time.
MaxLoads == 2
\* Document handles left open in one engine.
MaxOpen == 2
\* Placements of a drawn document.
MaxPlacements == 3
\* THREE.Group objects FragmentsService builds over the life of the process.
MaxGroups == 2
\* requestAnimationFrame calls made over the life of the page.
MaxFrames == 5
\* onError calls made on the AppErrorHandler.
MaxRegistrations == 3
\* Log entries the LoggerService accepts over the life of the process.
MaxLogged == 102
\* handleError calls whose error the LoggerService accepts.
MaxErrors == 2

\* ------------------------------------------------------------------ inputs
\* config.wasm.path values handed to initialize.
WasmPaths == {"cdn", "local"}

\* The ViewerConfig values handed to initialize (only wasm.path is read).
Configs == {[wasm |-> [path |-> p]] : p \in WasmPaths}

\* File objects handed to loadIfcFile (file.name, file.size).
Files ==
  { [name |-> "a.ifc", size |-> 3] }

\* File objects handed to FragmentsService.loadIfcFile: two files, so that
\* the bytes kept for export can be told apart from those of another file.
FragmentFiles ==
  Files \cup { [name |-> "b.ifc", size |-> 4] }

\* placedGeometry.color: the channels x, y, z (red, green, blue) and w
\* (alpha), in thousandths, so that 0.99 is 990 and 1.0 is 1000.
Color(x, y, z, w) ==
  [x |-> x, y |-> y, z |-> z, w |-> w]

\* One placed geometry of a flat mesh: what GetGeometry and the vertex and
\* index arrays look like for it.  hasVerts/hasIndices say whether
\* GetVertexArray/GetIndexArray returned an array at all, verts is the length
\* of the vertex array handed to the position attribute (3 floats per
\* vertex), indices the length of the index array; getGeometry = "throw" is
\* a corrupt sub-geometry, convert = "throw" a placement whose conversion to
\* a mesh throws after the arrays were read.
Valid(id, nverts) ==
  [geometryExpressID |-> id, getGeometry |-> "ok",
   hasVerts |-> TRUE, verts |-> 3 * nverts, hasIndices |-> TRUE, indices |-> 3,
   convert |-> "ok", color |-> Color(700, 700, 700, 1000)]

\* A valid placement of the given colour.
Tinted(id, nverts, color) ==
  [Valid(id, nverts) EXCEPT !.color = color]

EmptyIndices(id) ==
  [Valid(id, 3) EXCEPT !.indices = 0]

EmptyVerts(id) ==
  [Valid(id, 3) EXCEPT !.verts = 0]

MissingIndices(id) ==
  [Valid(id, 3) EXCEPT !.hasIndices = FALSE, !.indices = 0]

MissingVerts(id) ==
  [Valid(id, 3) EXCEPT !.hasVerts = FALSE, !.verts = 0]

Corrupt(id) ==
  [Valid(id, 3) EXCEPT !.getGeometry = "throw", !.verts = 0, !.indices = 0]

ConvertThrows(id) ==
  [Valid(id, 3) EXCEPT !.convert = "throw"]

FlatMesh(id, geoms) ==
  [expressID |-> id, geometries |-> geoms]

\* What the engine finds in the bytes of a file once they are read: whether
\* file.arrayBuffer() resolves, whether OpenModel, LoadAllGeometry and the
\* bounding-box/metadata step throw, and the flat meshes of the document.
Document(read, open, loadAll, finalize, meshes) ==
  [read |-> read, open |-> open, loadAll |-> loadAll, finalize |-> finalize, flatMeshes |-> meshes]

GoodMeshes ==
  << FlatMesh(1, << Valid(11, 3), Corrupt(12) >>),
     FlatMesh(2, << EmptyIndices(21), Valid(22, 4) >>) >>

GoodDocument == Document("ok", "ok", "ok", "ok", GoodMeshes)

Documents ==
  { GoodDocument,
    Document("fail", "ok", "ok", "ok", << >>),
    Document("ok", "throw", "ok", "ok", << >>),
    Document("ok", "ok", "throw", "ok", << >>),
    Document("ok", "ok", "ok", "throw", GoodMeshes) }

\* Percent values at which a caller-supplied progress sink may throw after
\* the file read (0: it never throws).
SinkThrowPoints == {0, 30, 50, 90, 100}

\* The ways the rest of a load can go once the read has settled: any
\* document with a sink that does not throw, and a sink throwing at any
\* checkpoint of a document that loads.
Runs ==
  {[document |-> d, throwAt |-> 0] : d \in Documents}
    \cup {[document |-> GoodDocument, throwAt |-> p] : p \in SinkThrowPoints}

\* The kinds of placement a drawn document is made of.
PlacementKinds ==
  {"opaque", "translucent", "emptyVerts", "emptyIndices", "missingVerts",
   "missingIndices", "corrupt", "convertThrows"}

\* The placement of the given kind; the translucent one has alpha 0.3.
Placement(kind, id) ==
  CASE kind = "opaque" -> Valid(id, 3)
    [] kind = "translucent" -> Tinted(id, 4, Color(200, 400, 600, 300))
    [] kind = "emptyVerts" -> EmptyVerts(id)
    [] kind = "emptyIndices" -> EmptyIndices(id)
    [] kind = "missingVerts" -> MissingVerts(id)
    [] kind = "missingIndices" -> MissingIndices(id)
    [] kind = "corrupt" -> Corrupt(id)
    [] kind = "convertThrows" -> ConvertThrows(id)

\* The layouts of a drawn document: for each of its placements, in the
\* order LoadAllGeometry hands them out, its kind and whether it is the
\* first placement of a new part (flat mesh).  The first placement always
\* starts a part.
Layouts ==
  {layout \in UNION {[1..n -> PlacementKinds \X BOOLEAN] : n \in 0..MaxPlacements} :
     Len(layout) > 0 => layout[1][2]}

\* The part the p-th placement of the layout belongs to.
PartOf(layout, p) ==
  Cardinality({q \in 1..p : layout[q][2]})

\* The flat meshes LoadAllGeometry returns for a document of the given
\* layout: part k has expressID k, and the p-th placement of the document
\* has geometryExpressID p.
FlatMeshesOf(layout) ==
  [k \in 1..PartOf(layout, Len(layout)) |->
     LET members == {p \in 1..Len(layout) : PartOf(layout, p) = k}
         first == CHOOSE p \in members : \A q \in members : p <= q
     IN FlatMesh(k, [j \in 1..Cardinality(members) |->
                       Placement(layout[first + j - 1][1], first + j - 1)])]

\* The documents drawn for the geometry extraction.
DrawnFlatMeshes == {FlatMeshesOf(layout) : layout \in Layouts}

\* Colour channel values, in thousandths: below 0, in range (with the
\* values around the 0.99 threshold) and above 1.
Channels == {-200, 0, 500, 989, 990, 995, 1000, 1500}

\* The documents drawn for the material: one valid placement of any colour.
ColouredFlatMeshes ==
  {<< FlatMesh(1, << Tinted(1, 3, Color(x, y, z, w)) >>) >> :
     x \in Channels, y \in Channels, z \in Channels, w \in Channels}

\* ------------------------------------------------------------------- state
VARIABLES
  ifcApi,          \* IfcLoaderService.ifcApi: 0 is null, else an engine id
  isInitialized,   \* IfcLoaderService.isInitialized
  isInitializing,  \* IfcLoaderService.isInitializing
  engines,         \* the IfcAPI instances created so far, by id
  loads,           \* bag of loadIfcFile calls suspended at await file.arrayBuffer()
  lastCall,        \* the step taken last and what it returned or threw
  geomIn,          \* the flat meshes of the document drawn for the load (<< >>: none drawn)
  model,           \* the IfcModel a caller holds: the first one a load returned
  modelMeshes,     \* the THREE.Mesh objects built for that model, by child id
  fragments,       \* the fields of FragmentsService
  fragmentLoads,   \* bag of FragmentsService.loadIfcFile calls suspended at the file read
  groups,          \* the THREE.Group objects FragmentsService built, by id
  scene,           \* the ids of the groups that are children of the THREE.Scene
  threejs,         \* the fields of ThreejsService
  frames,          \* the animation-frame requests the browser holds: [id, loop]
  nextFrameId,     \* the id the next requestAnimationFrame call returns
  errorListeners,  \* AppErrorHandler.errorListeners: [listener, registration] in array order
  registrations,   \* the listener handed to each onError call so far, by call number
  logger,          \* the configuration of LoggerService: [enabled, minLevel]
  logHistory,      \* LoggerService.logHistory
  accepted         \* the number of entries LoggerService has accepted: its clock

vars ==
  <<ifcApi, isInitialized, isInitializing, engines, loads, lastCall, geomIn, model, modelMeshes,
    fragments, fragmentLoads, groups, scene, threejs, frames, nextFrameId, errorListeners,
    registrations, logger, logHistory, accepted>>

\* What belongs to the caller of the loader rather than to the loader.
callerVars == <<geomIn, model, modelMeshes>>

\* FragmentsService, the groups it built and the scene it was handed.
fragmentVars == <<fragments, fragmentLoads, groups, scene>>

\* ThreejsService and the animation-frame requests of the browser.
renderVars == <<threejs, frames, nextFrameId>>

\* AppErrorHandler.
handlerVars == <<errorListeners, registrations>>

\* LoggerService.
loggerVars == <<logger, logHistory, accepted>>

\* The services beside the two loaders.
serviceVars == <<renderVars, handlerVars, loggerVars>>

null == 0

\* enum LogLevel
LogLevel == [Debug |-> 0, Info |-> 1, Warn |-> 2, Error |-> 3, None |-> 4]

\* The fields of a ThreejsService as constructed: renderer, scene, camera
\* and controls say whether the field holds an object (FALSE is null), and
\* animationFrameId is null or the id of an animation-frame request.
ThreejsService ==
  [renderer |-> FALSE, scene |-> FALSE, camera |-> FALSE, controls |-> FALSE,
   animationFrameId |-> null]

\* A ThreejsService that was constructed and never used; the browser has
\* no animation-frame request of it and hands out request ids from 1.
NoThreejs ==
  /\ threejs = ThreejsService
  /\ frames = {}
  /\ nextFrameId = 1

\* An AppErrorHandler as constructed: no listener.
NoHandler ==
  /\ errorListeners = << >>
  /\ registrations = << >>

\* A LoggerService constructed in an environment whose logging.enabled is
\* false: whatever is logged, it keeps no entry.
NoLogger ==
  /\ logger = [enabled |-> FALSE, minLevel |-> LogLevel.Error]
  /\ logHistory = << >>
  /\ accepted = 0

\* The services beside the two loaders, as constructed.
NoServices ==
  /\ NoThreejs
  /\ NoHandler
  /\ NoLogger


\* ------------------------------------------------------------------ errors
\* A plain JavaScript Error: a name and a message, nothing else.
Error(message) ==
  [name |-> "Error", message |-> message]

\* AppError's constructor copies the details into the error's fields.
AppError(details) ==
  [name |-> "AppError",
   code |-> details.code,
   message |-> details.message,
   recoverable |-> details.recoverable,
   context |-> details.context,
   originalError |-> details.originalError]

IfcLoadError(message, originalError, context) ==
  [AppError([code |-> "IFC_LOAD_FAILED", message |-> message, recoverable |-> TRUE,
             originalError |-> originalError, context |-> context])
     EXCEPT !.name = "IfcLoadError"]

WasmLoadError(message, originalError, context) ==
  [AppError([code |-> "WASM_LOAD_FAILED", message |-> message, recoverable |-> FALSE,
             originalError |-> originalError, context |-> context])
     EXCEPT !.name = "WasmLoadError"]

\* No error: the value of an absent originalError and of a call that did
\* not throw.
undefined == [name |-> "undefined"]

\* null in a field that otherwise holds bytes or a file name.
none == [name |-> "null"]

\* ------------------------------------------------------ geometry extraction
\* Math.max and Math.min on two numbers.
Max(a, b) == IF a >= b THEN a ELSE b

Min(a, b) == IF a <= b THEN a ELSE b

\* clamp without the lower bound.
clamp_upperOnly(channel) ==
  Min(1000, channel)

\* Math.max(0, Math.min(1, channel)), in thousandths.
clamp(channel) ==
  Max(0, Min(1000, channel))

\* MeshLambertMaterial that is transparent for every alpha below 1.
MeshLambertMaterial_opaqueAtOne(color) ==
  LET r == clamp(color.x)
      g == clamp(color.y)
      b == clamp(color.z)
      a == clamp(color.w)
  IN [color |-> [r |-> r, g |-> g, b |-> b],
      transparent |-> a < 1000,
      opacity |-> a,
      depthWrite |-> a >= 1000]

\* new THREE.MeshLambertMaterial({color: new THREE.Color(r, g, b),
\* transparent: a < 0.99, opacity: a, depthWrite: a >= 0.99}) for the
\* clamped channels of color.
MeshLambertMaterial(color) ==
  LET r == clamp(color.x)
      g == clamp(color.y)
      b == clamp(color.z)
      a == clamp(color.w)
  IN [color |-> [r |-> r, g |-> g, b |-> b],
      transparent |-> a < 990,
      opacity |-> a,
      depthWrite |-> a >= 990]

\* What the loop did with one placement: whether GetGeometry handed out a
\* native geometry object (acquired), how often delete was called on it
\* (released), and how the iteration ended ("mesh": a mesh was pushed,
\* "skipped": the continue of the empty-array check, "caught": the catch
\* block).
Visit(placedGeometry, acquired, released, result) ==
  [geometryExpressID |-> placedGeometry.geometryExpressID,
   acquired |-> acquired, released |-> released, result |-> result]

\* The catch block of the inner loop: a warning is logged and the loop
\* continues with the next placement.
catchPlacement(acc, placedGeometry, acquired) ==
  [acc EXCEPT !.acquired = @ + acquired,
              !.visits = Append(@, Visit(placedGeometry, acquired, 0, "caught"))]

\* noGeometryData that looks at the index array only.
noGeometryData_indicesOnly(placedGeometry) ==
  \/ ~placedGeometry.hasIndices
  \/ placedGeometry.indices = 0

\* !verts || !indices || verts.length === 0 || indices.length === 0
noGeometryData(placedGeometry) ==
  \/ ~placedGeometry.hasVerts
  \/ ~placedGeometry.hasIndices
  \/ placedGeometry.verts = 0
  \/ placedGeometry.indices = 0

\* The body of the inner loop of generateGeometry for one placed geometry:
\* acc is [meshes, acquired, released, visits].  GetGeometry throwing is
\* caught and the placement skipped; a missing or empty vertex or index
\* array releases the native geometry and skips; otherwise the mesh is
\* pushed and the native geometry released; a throw while converting is
\* caught after the acquisition and before the release.
processPlacement(acc, flatMesh, placedGeometry) ==
  IF placedGeometry.getGeometry = "throw"
  THEN catchPlacement(acc, placedGeometry, 0)
  ELSE IF noGeometryData(placedGeometry)
  THEN [acc EXCEPT !.acquired = @ + 1,
                   !.released = @ + 1,
                   !.visits = Append(@, Visit(placedGeometry, 1, 1, "skipped"))]
  ELSE IF placedGeometry.convert = "throw"
  THEN catchPlacement(acc, placedGeometry, 1)
  ELSE [acc EXCEPT
          !.meshes = Append(@, [ifcExpressID |-> flatMesh.expressID,
                                geometryExpressID |-> placedGeometry.geometryExpressID,
                                positionCount |-> placedGeometry.verts \div 3,
                                material |-> MeshLambertMaterial(placedGeometry.color)]),
          !.acquired = @ + 1,
          !.released = @ + 1,
          !.visits = Append(@, Visit(placedGeometry, 1, 1, "mesh"))]

RECURSIVE processGeometries_stopAtCatch(_, _, _)
\* processGeometries whose loop ends at the first placement that reaches
\* the catch block.
processGeometries_stopAtCatch(acc, flatMesh, from) ==
  IF from > Len(flatMesh.geometries)
  THEN acc
  ELSE LET next == processPlacement(acc, flatMesh, flatMesh.geometries[from])
       IN IF next.visits[Len(next.visits)].result = "caught"
          THEN next
          ELSE processGeometries_stopAtCatch(next, flatMesh, from + 1)

RECURSIVE processGeometries(_, _, _)
\* for (j = from; j < flatMesh.geometries.size(); j++)
processGeometries(acc, flatMesh, from) ==
  IF from > Len(flatMesh.geometries)
  THEN acc
  ELSE processGeometries(processPlacement(acc, flatMesh, flatMesh.geometries[from]),
                         flatMesh, from + 1)

RECURSIVE processFlatMeshes(_, _, _)
\* for (i = from; i < flatMeshes.size(); i++)
processFlatMeshes(acc, flatMeshes, from) ==
  IF from > Len(flatMeshes)
  THEN acc
  ELSE processFlatMeshes(processGeometries(acc, flatMeshes[from], 1), flatMeshes, from + 1)

\* generateGeometry(modelID) on an opened document whose LoadAllGeometry
\* returned flatMeshes.
generateGeometry(flatMeshes) ==
  processFlatMeshes([meshes |-> << >>, acquired |-> 0, released |-> 0, visits |-> << >>],
                    flatMeshes, 1)

\* countVertices that counts one vertex per mesh.
countVertices_perMesh(meshes) ==
  Len(meshes)

RECURSIVE countVertices(_)
\* meshes.reduce((count, mesh) => count + positions.count, 0)
countVertices(meshes) ==
  IF meshes = << >>
  THEN 0
  ELSE meshes[1].positionCount + countVertices(Tail(meshes))

\* --------------------------------------------------------- the engine (IfcAPI)
\* new WEBIFC.IfcAPI() followed by SetWasmPath and the call of Init(), which
\* is pending until it settles.  config is the configuration held by the
\* initialize call that created the instance, for as long as that call is
\* suspended at the await of Init.
NewEngine(config) ==
  [init |-> "pending", config |-> config, open |-> 0]

\* Engines whose Init() has been called and has not settled: one per
\* initialize call suspended at its await.
PendingInits == {e \in DOMAIN engines : engines[e].init = "pending"}

\* Engines whose Init() completed successfully.
SucceededInits == {e \in DOMAIN engines : engines[e].init = "ok"}

\* The suspended loadIfcFile calls, and how many there are.
InFlight == BagToSet(loads)

InFlightCount == BagCardinality(loads)

\* ------------------------------------------------------- what a step returns
\* The record left in lastCall by a step: the operation, whether the step is
\* the call or the resumption after the await, its argument, and the outcome
\* ("suspended" at an await, "resolved" or "rejected").  The other fields
\* describe a loadIfcFile step: the error thrown inside its try block, whether
\* a sink was supplied and the events it received, whether OpenModel returned
\* a handle and CloseModel closed it, what generateGeometry did with each
\* placement, and the IfcModel returned.  order lists the sink events and
\* the engine calls of the step as they happened.  value is what a getter
\* returned, logged the calls the operation made on the logger, from its
\* entry on.
Returned(op, phase, arg, outcome, error) ==
  [op |-> op, phase |-> phase, arg |-> arg, outcome |-> outcome, error |-> error,
   thrown |-> undefined, hasSink |-> FALSE, events |-> << >>,
   opened |-> FALSE, closed |-> FALSE, order |-> << >>, visits |-> << >>,
   model |-> undefined, value |-> undefined, logged |-> << >>]

\* One call of a LoggerService method by the loader: the level is the
\* method (debug, info, warn, error), the message is kept as its words,
\* data is undefined when the argument was not passed, and error is the
\* Error handed to logger.error.
LogCall(level, message, context, data, error) ==
  [level |-> level, message |-> message, context |-> context, data |-> data,
   error |-> error]

\* logger.info('Initializing IFC Loader', 'IfcLoaderService',
\*             { wasmPath: config.wasm.path })
logInitializing(config) ==
  LogCall("info", <<"Initializing", "IFC", "Loader">>, "IfcLoaderService",
          [wasmPath |-> config.wasm.path], undefined)

\* logger.info('IFC Loader initialized successfully', 'IfcLoaderService')
logInitialized ==
  LogCall("info", <<"IFC", "Loader", "initialized", "successfully">>, "IfcLoaderService",
          undefined, undefined)

\* logger.info('Loading IFC file', 'IfcLoaderService', { fileName, fileSize })
logLoading(file) ==
  LogCall("info", <<"Loading", "IFC", "file">>, "IfcLoaderService",
          [fileName |-> file.name, fileSize |-> file.size], undefined)

\* ---------------------------------------------------------------- initialize
\* initializeEntry without the isInitializing guard.
initializeEntry_noReject(initializing, initialized) ==
  IF initialized THEN "return"
  ELSE "start"

\* initializeEntry without the isInitialized guard.
initializeEntry_noReturn(initializing, initialized) ==
  IF initializing THEN "reject"
  ELSE "start"

\* The two guards at the head of initialize: "reject" throws the
\* already-in-progress Error, "return" is the already-initialized return,
\* "start" goes on to create the engine.
initializeEntry(initializing, initialized) ==
  IF initializing THEN "reject"
  ELSE IF initialized THEN "return"
  ELSE "start"

\* initialize(config), up to the await of ifcApi.Init().
initialize(config) ==
  LET entry == initializeEntry(isInitializing, isInitialized) IN
  /\ entry = "start" => Len(engines) < MaxEngines
  /\ IF entry = "reject"
     THEN /\ lastCall' = Returned("initialize", "call", config, "rejected",
                                  Error("IFC Loader initialization already in progress"))
          /\ UNCHANGED <<ifcApi, isInitialized, isInitializing, engines, loads>>
     ELSE IF entry = "return"
     THEN /\ lastCall' = [Returned("initialize", "call", config, "resolved", undefined)
                            EXCEPT !.logged =
                              << LogCall("debug", <<"IFC", "Loader", "already", "initialized">>,
                                         "IfcLoaderService", undefined, undefined) >>]
          /\ UNCHANGED <<ifcApi, isInitialized, isInitializing, engines, loads>>
     ELSE /\ isInitializing' = TRUE
          /\ engines' = Append(engines, NewEngine(config))
          /\ ifcApi' = Len(engines) + 1
          /\ lastCall' = [Returned("initialize", "call", config, "suspended", undefined)
                            EXCEPT !.logged = <<logInitializing(config)>>]
          /\ UNCHANGED <<isInitialized, loads>>

\* initializeResume without the finally block: the catch path leaves the
\* isInitializing flag set.
initializeResume_noFinally(e, initOutcome) ==
  /\ e \in PendingInits
  /\ LET config == engines[e].config IN
     IF initOutcome = "ok"
     THEN /\ engines' = [engines EXCEPT ![e].init = "ok", ![e].config = undefined]
          /\ isInitialized' = TRUE
          /\ isInitializing' = FALSE
          /\ lastCall' = [Returned("initialize", "resume", config, "resolved", undefined)
                            EXCEPT !.logged = <<logInitializing(config), logInitialized>>]
          /\ UNCHANGED <<ifcApi, loads>>
     ELSE /\ engines' = [engines EXCEPT ![e].init = "failed", ![e].config = undefined]
          /\ ifcApi' = null
          /\ lastCall' = [Returned("initialize", "resume", config, "rejected",
                                   WasmLoadError("Failed to initialize web-ifc WASM module",
                                                 Error("Init rejected"),
                                                 [wasmPath |-> config.wasm.path]))
                            EXCEPT !.logged =
                              << logInitializing(config),
                                 LogCall("error",
                                         <<"Failed", "to", "initialize", "IFC", "Loader">>,
                                         "IfcLoaderService", undefined,
                                         Error("Init rejected")) >>]
          /\ UNCHANGED <<isInitialized, isInitializing, loads>>

\* The rest of initialize once the Init() of engine e has settled: the
\* statements after the await when it resolved, the catch block when it
\* rejected, and the finally block in both cases.
initializeResume(e, initOutcome) ==
  /\ e \in PendingInits
  /\ LET config == engines[e].config IN
     IF initOutcome = "ok"
     THEN /\ engines' = [engines EXCEPT ![e].init = "ok", ![e].config = undefined]
          /\ isInitialized' = TRUE
          /\ isInitializing' = FALSE
          /\ lastCall' = [Returned("initialize", "resume", config, "resolved", undefined)
                            EXCEPT !.logged = <<logInitializing(config), logInitialized>>]
          /\ UNCHANGED <<ifcApi, loads>>
     ELSE /\ engines' = [engines EXCEPT ![e].init = "failed", ![e].config = undefined]
          /\ ifcApi' = null
          /\ isInitializing' = FALSE
          /\ lastCall' = [Returned("initialize", "resume", config, "rejected",
                                   WasmLoadError("Failed to initialize web-ifc WASM module",
                                                 Error("Init rejected"),
                                                 [wasmPath |-> config.wasm.path]))
                            EXCEPT !.logged =
                              << logInitializing(config),
                                 LogCall("error",
                                         <<"Failed", "to", "initialize", "IFC", "Loader">>,
                                         "IfcLoaderService", undefined,
                                         Error("Init rejected")) >>]
          /\ UNCHANGED <<isInitialized, loads>>

\* ------------------------------------------------------------------- dispose
dispose ==
  /\ ifcApi' = null
  /\ isInitialized' = FALSE
  /\ isInitializing' = FALSE
  /\ lastCall' = [Returned("dispose", "call", undefined, "resolved", undefined)
                    EXCEPT !.logged = << LogCall("info", <<"IFC", "Loader", "disposed">>,
                                                 "IfcLoaderService", undefined, undefined) >>]
  /\ UNCHANGED <<engines, loads>>

\* --------------------------------------------------------------- loadIfcFile
\* ensureInitialized that also throws while another load is in flight.
ensureInitialized_singleFlight(initialized, api) ==
  ~(~initialized \/ api = null \/ InFlightCount > 0)

\* ensureInitialized(): TRUE when it returns, FALSE when it throws.
ensureInitialized(initialized, api) ==
  ~(~initialized \/ api = null)

\* The error ensureInitialized throws.
notInitializedError ==
  IfcLoadError("IFC Loader not initialized", undefined,
               [isInitialized |-> isInitialized, hasApi |-> ifcApi # null])

\* loadFailure with the context of the logger call of the catch block, which
\* carries the file name only.
loadFailure_noSize(file, error) ==
  IfcLoadError("Failed to load IFC file", error, [fileName |-> file.name])

\* The error the catch block of loadIfcFile throws for the failure error.
loadFailure(file, error) ==
  IfcLoadError("Failed to load IFC file", error,
               [fileName |-> file.name, fileSize |-> file.size])

\* The progress event emitted at a checkpoint of loadIfcFile.
IfcLoadProgress(percent, stage) ==
  [percent |-> percent, stage |-> stage]

\* The state of one run of the try block of loadIfcFile: thrown is the
\* error that left the block (undefined while it is still running), events
\* the progress events handed to the sink, opened/closed whether OpenModel
\* returned a handle and CloseModel was called on it, meshes the result of
\* generateGeometry, visits what it did with each placement, metadata
\* the record built from the meshes, and order the sink events and engine
\* calls made so far, in the order they were made.
TryBlock(hasSink) ==
  [thrown |-> undefined, hasSink |-> hasSink, events |-> << >>,
   opened |-> FALSE, closed |-> FALSE, order |-> << >>, meshes |-> << >>,
   visits |-> << >>, metadata |-> undefined]

\* One entry of order: an event handed to the sink ("progress", its stage)
\* or a call made on the engine ("engine", the method).
Occurred(kind, name) == [kind |-> kind, name |-> name]

Running(try) == try.thrown.name = "undefined"

\* onProgress that still hands events to the sink after the try block was
\* left by a throw.
onProgress_afterFailure(try, throwAt, percent, stage) ==
  IF ~try.hasSink
  THEN try
  ELSE [try EXCEPT
          !.events = Append(@, IfcLoadProgress(percent, stage)),
          !.order = Append(@, Occurred("progress", stage)),
          !.thrown = IF Running(try) /\ throwAt = percent
                     THEN Error("progress sink threw") ELSE @]

\* onProgress?.({percent, message, stage}): nothing without a sink; the sink
\* receives the event and may throw.
onProgress(try, throwAt, percent, stage) ==
  IF ~Running(try) \/ ~try.hasSink
  THEN try
  ELSE [try EXCEPT
          !.events = Append(@, IfcLoadProgress(percent, stage)),
          !.order = Append(@, Occurred("progress", stage)),
          !.thrown = IF throwAt = percent THEN Error("progress sink threw") ELSE @]

\* await file.arrayBuffer(), resumed.
arrayBuffer(try, document) ==
  IF ~Running(try) THEN try
  ELSE IF document.read = "fail"
  THEN [try EXCEPT !.thrown = Error("arrayBuffer rejected")]
  ELSE try

\* OpenModel for which a null ifcApi is no obstacle.
OpenModel_onNull(try, document) ==
  IF ~Running(try) THEN try
  ELSE IF ifcApi # null /\ engines[ifcApi].init # "ok"
  THEN [try EXCEPT !.thrown = [name |-> "TypeError", message |-> "engine not set up"]]
  ELSE IF document.open = "throw"
  THEN [try EXCEPT !.thrown = Error("OpenModel threw")]
  ELSE [try EXCEPT !.opened = TRUE,
                   !.order = Append(@, Occurred("engine", "OpenModel"))]

\* this.ifcApi!.OpenModel(data): a TypeError on a null ifcApi and on an
\* engine whose Init has not completed (it has no wasm module yet).
OpenModel(try, document) ==
  IF ~Running(try) THEN try
  ELSE IF ifcApi = null
  THEN [try EXCEPT !.thrown = [name |-> "TypeError", message |-> "ifcApi is null"]]
  ELSE IF engines[ifcApi].init # "ok"
  THEN [try EXCEPT !.thrown = [name |-> "TypeError", message |-> "engine not set up"]]
  ELSE IF document.open = "throw"
  THEN [try EXCEPT !.thrown = Error("OpenModel threw")]
  ELSE [try EXCEPT !.opened = TRUE,
                   !.order = Append(@, Occurred("engine", "OpenModel"))]

\* const meshes = this.generateGeometry(modelID); the calls outside the
\* per-placement try (LoadAllGeometry) propagate.
extractGeometry(try, document) ==
  IF ~Running(try) THEN try
  ELSE IF document.loadAll = "throw"
  THEN [try EXCEPT !.thrown = Error("LoadAllGeometry threw"),
                   !.order = Append(@, Occurred("engine", "LoadAllGeometry"))]
  ELSE LET generated == generateGeometry(document.flatMeshes)
       IN [try EXCEPT !.meshes = generated.meshes, !.visits = generated.visits,
                      !.order = Append(@, Occurred("engine", "LoadAllGeometry"))]

\* generateModelId(): a string made of the clock and a random number.
generateModelId == "model-<now>-<random>"

\* new IfcModel(data): the constructor copies the three fields; the
\* disposed flag starts false.
IfcModel(data) ==
  [modelGroup |-> data.modelGroup, metadata |-> data.metadata, rawData |-> data.rawData,
   disposed |-> FALSE]

\* The bounding box and the metadata record.
finalize(try, file, document) ==
  IF ~Running(try) THEN try
  ELSE IF document.finalize = "throw"
  THEN [try EXCEPT !.thrown = Error("setFromObject threw")]
  ELSE [try EXCEPT !.metadata = [id |-> generateModelId,
                                 fileName |-> file.name,
                                 fileSize |-> file.size,
                                 meshCount |-> Len(try.meshes),
                                 vertexCount |-> countVertices(try.meshes)]]

\* this.ifcApi!.CloseModel(modelID)
CloseModel(try) ==
  IF ~Running(try) THEN try
  ELSE [try EXCEPT !.closed = TRUE,
                   !.order = Append(@, Occurred("engine", "CloseModel"))]

\* afterRead without the 90/rendering checkpoint.
afterRead_noRendering(try, file, document, throwAt) ==
  LET read == arrayBuffer(try, document)
      p30 == onProgress(read, throwAt, 30, "parsing")
      open == OpenModel(p30, document)
      p50 == onProgress(open, throwAt, 50, "geometry")
      geom == extractGeometry(p50, document)
      meta == finalize(geom, file, document)
      close == CloseModel(meta)
  IN onProgress(close, throwAt, 100, "complete")

\* afterRead that closes the document after the 100/complete checkpoint.
afterRead_closeLast(try, file, document, throwAt) ==
  LET read == arrayBuffer(try, document)
      p30 == onProgress(read, throwAt, 30, "parsing")
      open == OpenModel(p30, document)
      p50 == onProgress(open, throwAt, 50, "geometry")
      geom == extractGeometry(p50, document)
      p90 == onProgress(geom, throwAt, 90, "rendering")
      meta == finalize(p90, file, document)
      p100 == onProgress(meta, throwAt, 100, "complete")
  IN CloseModel(p100)

\* The try block of loadIfcFile from the resumed await to its end.
afterRead(try, file, document, throwAt) ==
  LET read == arrayBuffer(try, document)
      p30 == onProgress(read, throwAt, 30, "parsing")
      open == OpenModel(p30, document)
      p50 == onProgress(open, throwAt, 50, "geometry")
      geom == extractGeometry(p50, document)
      p90 == onProgress(geom, throwAt, 90, "rendering")
      meta == finalize(p90, file, document)
      close == CloseModel(meta)
  IN onProgress(close, throwAt, 100, "complete")

IsCaught(visit) == visit.result = "caught"

\* The logger calls of generateGeometry: a warning for every placement
\* that reached the catch block and, when the method returns, the debug
\* call with the number of meshes.
logExtraction(try) ==
  IF \/ \A k \in 1..Len(try.order) : try.order[k] # Occurred("engine", "LoadAllGeometry")
     \/ try.thrown = Error("LoadAllGeometry threw")
  THEN << >>
  ELSE LET caught == SelectSeq(try.visits, IsCaught)
       IN [k \in 1..Len(caught) |->
             LogCall("warn", <<"Error", "processing", "geometry">>, "IfcLoaderService",
                     [error |-> Error("placement failed")], undefined)]
          \o << LogCall("debug", <<"Generated", "meshes", "from", "IFC", "model">>,
                        "IfcLoaderService", undefined, undefined) >>

\* What a settled loadIfcFile leaves in lastCall: the IfcModel on a normal
\* end of the try block, the error of the catch block otherwise.
Settled(phase, file, try) ==
  [op |-> "loadIfcFile", phase |-> phase, arg |-> file,
   outcome |-> IF Running(try) THEN "resolved" ELSE "rejected",
   error |-> IF Running(try) THEN undefined ELSE loadFailure(file, try.thrown),
   thrown |-> try.thrown, hasSink |-> try.hasSink, events |-> try.events,
   opened |-> try.opened, closed |-> try.closed, order |-> try.order,
   visits |-> try.visits,
   logged |-> <<logLoading(file)>> \o logExtraction(try)
              \o IF Running(try)
                 THEN << LogCall("info", <<"IFC", "file", "loaded", "successfully">>,
                                 "IfcLoaderService",
                                 [fileName |-> file.name, meshCount |-> Len(try.meshes)],
                                 undefined) >>
                 ELSE << LogCall("error", <<"Failed", "to", "load", "IFC", "file">>,
                                 "IfcLoaderService", [fileName |-> file.name],
                                 try.thrown) >>,
   model |-> IF Running(try)
             THEN IfcModel([modelGroup |-> try.meshes, metadata |-> try.metadata,
                            rawData |-> [bytesOf |-> file.name]])
             ELSE undefined,
   value |-> undefined]

\* loadIfcFile(file, onProgress), up to the await of file.arrayBuffer().
\* hasSink: onProgress was supplied; throwAt: the percent at which it throws.
loadIfcFile(file, hasSink, throwAt) ==
  /\ ~hasSink => throwAt = 0
  /\ IF ~ensureInitialized(isInitialized, ifcApi)
     THEN /\ lastCall' = [Returned("loadIfcFile", "call", file, "rejected", notInitializedError)
                            EXCEPT !.hasSink = hasSink]
          /\ UNCHANGED <<ifcApi, isInitialized, isInitializing, engines, loads>>
     ELSE LET try == onProgress(TryBlock(hasSink), throwAt, 10, "reading") IN
          IF ~Running(try)
          THEN /\ lastCall' = Settled("call", file, try)
               /\ UNCHANGED <<ifcApi, isInitialized, isInitializing, engines, loads>>
          ELSE /\ InFlightCount < MaxLoads
               /\ loads' = loads (+) SetToBag({[file |-> file, try |-> try]})
               /\ lastCall' = [Returned("loadIfcFile", "call", file, "suspended", undefined)
                                 EXCEPT !.hasSink = hasSink, !.events = try.events,
                                        !.order = try.order,
                                        !.logged = <<logLoading(file)>>]
               /\ UNCHANGED <<ifcApi, isInitialized, isInitializing, engines>>

\* The rest of the suspended loadIfcFile call once its file read has
\* settled; document is what the bytes turn out to hold and throwAt the
\* percent at which the sink throws.
loadIfcFileResume(call, document, throwAt) ==
  /\ call \in InFlight
  /\ ~call.try.hasSink => throwAt = 0
  /\ ifcApi # null => engines[ifcApi].open < MaxOpen
  /\ LET try == afterRead(call.try, call.file, document, throwAt)
     IN /\ lastCall' = Settled("resume", call.file, try)
        /\ engines' = IF try.opened /\ ~try.closed
                      THEN [engines EXCEPT ![ifcApi].open = @ + 1]
                      ELSE engines
        /\ loads' = loads (-) SetToBag({call})
        /\ UNCHANGED <<ifcApi, isInitialized, isInitializing>>

\* ---------------------------------------------------------- FragmentsService
\* The fields of a FragmentsService as constructed.  scene and camera say
\* whether the field holds the object handed to initialize; ifcApi is null
\* or an engine id, currentModelGroup null or a group id.
FragmentsService ==
  [scene |-> FALSE, camera |-> FALSE, ifcApi |-> null, currentModelGroup |-> null,
   currentModelData |-> none, currentFileName |-> none,
   isInitialized |-> FALSE, isInitializing |-> FALSE]

\* A FragmentsService that was constructed and never used, and an empty
\* scene.
NoFragments ==
  /\ fragments = FragmentsService
  /\ fragmentLoads = EmptyBag
  /\ groups = << >>
  /\ scene = {}

\* The progress event FragmentsService emits.
LoadProgress(percent, message) ==
  [percent |-> percent, message |-> message]

\* The state of one run of the try block of FragmentsService.loadIfcFile:
\* as TryBlock, with the service fields, the groups and the scene as the
\* statements run so far have left them, and group the id of the group
\* built (null before).
FragmentsTry(hasSink) ==
  [thrown |-> undefined, hasSink |-> hasSink, events |-> << >>,
   opened |-> FALSE, closed |-> FALSE, order |-> << >>, group |-> null,
   fragments |-> fragments, groups |-> groups, scene |-> scene]

\* if (onProgress) onProgress({percent, message}): the sink throws at the
\* percents in throwsAt.
Fragments_onProgress(try, throwsAt, percent, message) ==
  IF ~Running(try) \/ ~try.hasSink
  THEN try
  ELSE [try EXCEPT
          !.events = Append(@, LoadProgress(percent, message)),
          !.thrown = IF percent \in throwsAt THEN Error("progress sink threw") ELSE @]

\* await file.arrayBuffer(), resumed, and the two assignments after it.
Fragments_arrayBuffer(try, file, document) ==
  IF ~Running(try) THEN try
  ELSE IF document.read = "fail"
  THEN [try EXCEPT !.thrown = Error("arrayBuffer rejected")]
  ELSE [try EXCEPT !.fragments.currentModelData = [bytesOf |-> file.name],
                   !.fragments.currentFileName = [name |-> file.name]]

\* this.ifcApi.OpenModel(data): a TypeError on a null ifcApi.
Fragments_OpenModel(try, document) ==
  IF ~Running(try) THEN try
  ELSE IF try.fragments.ifcApi = null
  THEN [try EXCEPT !.thrown = [name |-> "TypeError", message |-> "ifcApi is null"]]
  ELSE IF document.open = "throw"
  THEN [try EXCEPT !.thrown = Error("OpenModel threw")]
  ELSE [try EXCEPT !.opened = TRUE]

\* new THREE.Group(), generateGeometry(modelID) and the add of every mesh:
\* the group is a new object, that was never disposed.
Fragments_buildGroup(try, file, document) ==
  IF ~Running(try) THEN try
  ELSE IF document.loadAll = "throw"
  THEN [try EXCEPT !.thrown = Error("LoadAllGeometry threw")]
  ELSE [try EXCEPT
          !.groups = Append(@, [name |-> file.name,
                                children |-> generateGeometry(document.flatMeshes).meshes,
                                disposeGroupCalls |-> 0]),
          !.group = Len(try.groups) + 1]

\* Fragments_removePrevious that disposes the previous group but leaves it
\* in the scene.
Fragments_removePrevious_keepsInScene(try) ==
  IF ~Running(try) \/ try.fragments.currentModelGroup = null THEN try
  ELSE IF ~try.fragments.scene
  THEN [try EXCEPT !.thrown = [name |-> "TypeError", message |-> "scene is null"]]
  ELSE [try EXCEPT
          !.groups[try.fragments.currentModelGroup].disposeGroupCalls = @ + 1]

\* scene.remove(currentModelGroup) and disposeGroup(currentModelGroup),
\* when a current group is held: disposeGroup disposes the geometry and the
\* material of every mesh of the group.  A null scene makes the call a
\* TypeError.
Fragments_removePrevious(try) ==
  IF ~Running(try) \/ try.fragments.currentModelGroup = null THEN try
  ELSE IF ~try.fragments.scene
  THEN [try EXCEPT !.thrown = [name |-> "TypeError", message |-> "scene is null"]]
  ELSE [try EXCEPT
          !.scene = @ \ {try.fragments.currentModelGroup},
          !.groups[try.fragments.currentModelGroup].disposeGroupCalls = @ + 1]

\* this.currentModelGroup = modelGroup; this.scene.add(modelGroup)
Fragments_showGroup(try) ==
  IF ~Running(try) THEN try
  ELSE IF ~try.fragments.scene
  THEN [try EXCEPT !.fragments.currentModelGroup = try.group,
                   !.thrown = [name |-> "TypeError", message |-> "scene is null"]]
  ELSE [try EXCEPT !.fragments.currentModelGroup = try.group,
                   !.scene = @ \cup {try.group}]

\* The bounding box of the group and the camera position.
Fragments_frame(try, document) ==
  IF ~Running(try) THEN try
  ELSE IF document.finalize = "throw"
  THEN [try EXCEPT !.thrown = Error("setFromObject threw")]
  ELSE try

\* The try block of FragmentsService.loadIfcFile from the resumed await to
\* its end.
Fragments_afterRead(try, file, document, throwsAt) ==
  LET read == Fragments_arrayBuffer(try, file, document)
      p30 == Fragments_onProgress(read, throwsAt, 30, "Opening IFC model...")
      open == Fragments_OpenModel(p30, document)
      p50 == Fragments_onProgress(open, throwsAt, 50, "Generating geometry...")
      built == Fragments_buildGroup(p50, file, document)
      removed == Fragments_removePrevious(built)
      shown == Fragments_showGroup(removed)
      framed == Fragments_frame(shown, document)
      close == CloseModel(framed)
  IN Fragments_onProgress(close, throwsAt, 100, "Loading complete")

\* What a settled FragmentsService.loadIfcFile leaves in lastCall.  A run
\* that ended normally resolves with the group; the catch block hands the
\* 0 percent event to the sink and resolves with null, and rejects when the
\* sink throws there.
Fragments_Settled(phase, file, try, throwsAt) ==
  LET caught == ~Running(try)
      rethrown == caught /\ try.hasSink /\ 0 \in throwsAt
  IN [Returned("FragmentsService.loadIfcFile", phase, file,
               IF rethrown THEN "rejected" ELSE "resolved",
               IF rethrown THEN Error("progress sink threw") ELSE undefined)
        EXCEPT !.thrown = try.thrown,
               !.hasSink = try.hasSink,
               !.events = IF caught /\ try.hasSink
                          THEN Append(try.events, LoadProgress(0, "Error"))
                          ELSE try.events,
               !.opened = try.opened,
               !.closed = try.closed,
               !.value = IF caught THEN null ELSE try.group]

\* The two guards at the head of FragmentsService.loadIfcFile: TRUE when
\* the call goes on to the try block, FALSE when it returns null.
Fragments_ready(service) ==
  /\ ~service.isInitializing
  /\ ~(service.ifcApi = null \/ ~service.scene \/ ~service.isInitialized)

\* FragmentsService.loadIfcFile(file, onProgress), up to the await of
\* file.arrayBuffer().
Fragments_loadIfcFile(file, hasSink, throwsAt) ==
  /\ ~hasSink => throwsAt = {}
  /\ IF ~Fragments_ready(fragments)
     THEN /\ lastCall' = [Returned("FragmentsService.loadIfcFile", "call", file, "resolved",
                                    undefined)
                            EXCEPT !.hasSink = hasSink, !.value = null]
          /\ UNCHANGED <<fragments, fragmentLoads, groups, scene>>
     ELSE LET try == Fragments_onProgress(FragmentsTry(hasSink), throwsAt, 10, "Reading file...")
          IN IF ~Running(try)
             THEN /\ lastCall' = Fragments_Settled("call", file, try, throwsAt)
                  /\ UNCHANGED <<fragments, fragmentLoads, groups, scene>>
             ELSE /\ BagCardinality(fragmentLoads) < MaxLoads
                  /\ fragmentLoads' = fragmentLoads (+)
                        SetToBag({[file |-> file, hasSink |-> hasSink, events |-> try.events]})
                  /\ lastCall' = [Returned("FragmentsService.loadIfcFile", "call", file,
                                           "suspended", undefined)
                                   EXCEPT !.hasSink = hasSink, !.events = try.events]
                  /\ UNCHANGED <<fragments, groups, scene>>
  /\ UNCHANGED <<ifcApi, isInitialized, isInitializing, engines, loads, callerVars, serviceVars>>

\* The rest of a suspended FragmentsService.loadIfcFile call once its file
\* read has settled.
Fragments_loadIfcFileResume(call, document, throwsAt) ==
  /\ call \in BagToSet(fragmentLoads)
  /\ ~call.hasSink => throwsAt = {}
  /\ Len(groups) < MaxGroups
  /\ fragments.ifcApi # null => engines[fragments.ifcApi].open < MaxOpen
  /\ LET try == Fragments_afterRead([FragmentsTry(call.hasSink) EXCEPT !.events = call.events],
                                    call.file, document, throwsAt)
     IN /\ lastCall' = Fragments_Settled("resume", call.file, try, throwsAt)
        /\ fragments' = try.fragments
        /\ groups' = try.groups
        /\ scene' = try.scene
        /\ engines' = IF try.opened /\ ~try.closed
                      THEN [engines EXCEPT ![fragments.ifcApi].open = @ + 1]
                      ELSE engines
        /\ fragmentLoads' = fragmentLoads (-) SetToBag({call})
  /\ UNCHANGED <<ifcApi, isInitialized, isInitializing, loads, callerVars, serviceVars>>

\* FragmentsService.exportFragments()
Fragments_exportFragments ==
  /\ lastCall' = [Returned("FragmentsService.exportFragments", "call", undefined, "resolved",
                           undefined)
                   EXCEPT !.value = fragments.currentModelData]
  /\ UNCHANGED <<ifcApi, isInitialized, isInitializing, engines, loads, callerVars,
                 fragmentVars, serviceVars>>

\* FragmentsService.getCurrentModel()
Fragments_getCurrentModel ==
  /\ lastCall' = [Returned("FragmentsService.getCurrentModel", "call", undefined, "returned",
                           undefined)
                   EXCEPT !.value = fragments.currentModelGroup]
  /\ UNCHANGED <<ifcApi, isInitialized, isInitializing, engines, loads, callerVars,
                 fragmentVars, serviceVars>>

\* FragmentsService.dispose()
Fragments_dispose ==
  /\ IF fragments.currentModelGroup # null /\ fragments.scene
     THEN /\ scene' = scene \ {fragments.currentModelGroup}
          /\ groups' = [groups EXCEPT ![fragments.currentModelGroup].disposeGroupCalls = @ + 1]
     ELSE UNCHANGED <<scene, groups>>
  /\ fragments' = [scene |-> FALSE, camera |-> FALSE, ifcApi |-> null,
                   currentModelGroup |-> IF fragments.currentModelGroup # null /\ fragments.scene
                                         THEN null
                                         ELSE fragments.currentModelGroup,
                   currentModelData |-> none, currentFileName |-> none,
                   isInitialized |-> FALSE, isInitializing |-> FALSE]
  /\ lastCall' = Returned("FragmentsService.dispose", "call", undefined, "returned", undefined)
  /\ UNCHANGED <<ifcApi, isInitialized, isInitializing, engines, loads, callerVars, serviceVars,
                 fragmentLoads>>

\* The ways the rest of a FragmentsService load can go once the read has
\* settled: any document with a sink that does not throw, a sink throwing
\* at a checkpoint of a document that loads, and a sink that throws in the
\* catch block of a file that cannot be read.
FragmentRuns ==
  {[document |-> d, throwsAt |-> {}] : d \in Documents}
    \cup {[document |-> GoodDocument, throwsAt |-> {p}] : p \in {30, 50, 100}}
    \cup {[document |-> Document("fail", "ok", "ok", "ok", << >>), throwsAt |-> {0}]}

\* A FragmentsService whose initialize has completed: it holds the scene,
\* the camera and an engine whose Init resolved; nothing is loaded.  The
\* IfcLoaderService is as constructed.
InitFragments ==
  /\ ifcApi = null
  /\ isInitialized = FALSE
  /\ isInitializing = FALSE
  /\ engines = << [NewEngine(undefined) EXCEPT !.init = "ok"] >>
  /\ loads = EmptyBag
  /\ lastCall = Returned("FragmentsService.initialize", "resume", undefined, "resolved",
                         undefined)
  /\ geomIn = << >>
  /\ model = undefined
  /\ modelMeshes = << >>
  /\ fragments = [FragmentsService EXCEPT !.scene = TRUE, !.camera = TRUE, !.ifcApi = 1,
                                          !.isInitialized = TRUE]
  /\ fragmentLoads = EmptyBag
  /\ groups = << >>
  /\ scene = {}
  /\ NoServices

NextFragments ==
  \/ \E file \in FragmentFiles, hasSink \in BOOLEAN, throwsAt \in {{}, {10}, {10, 0}} :
       Fragments_loadIfcFile(file, hasSink, throwsAt)
  \/ \E call \in BagToSet(fragmentLoads), run \in FragmentRuns :
       Fragments_loadIfcFileResume(call, run.document, run.throwsAt)
  \/ Fragments_exportFragments
  \/ Fragments_getCurrentModel
  \/ Fragments_dispose

SpecFragments == InitFragments /\ [][NextFragments]_vars

\* ----------------------------- FragmentsService.generateGeometry, first copy
\* new THREE.MeshPhongMaterial({ color: new THREE.Color(0.7, 0.7, 0.7),
\* side: THREE.DoubleSide }): the same grey for every mesh.
MeshPhongMaterial ==
  [color |-> [r |-> 700, g |-> 700, b |-> 700], side |-> "DoubleSide"]

\* The body of the loop of the first copy for one flat mesh: acc is
\* [meshes, thrown].  Only flatMesh.geometries.get(0) is read; there is no
\* try block, so a throw of GetGeometry, of a BufferAttribute built on a
\* missing array, or of the conversion leaves the method; an empty array is
\* not tested for; the mesh's userData is left without tags (null here).
FirstCopy_processFlatMesh(acc, flatMesh) ==
  IF acc.thrown # undefined \/ flatMesh.geometries = << >>
  THEN acc
  ELSE LET placedGeometry == flatMesh.geometries[1] IN
       IF placedGeometry.getGeometry = "throw"
       THEN [acc EXCEPT !.thrown = Error("GetGeometry failed")]
       ELSE IF ~placedGeometry.hasVerts \/ ~placedGeometry.hasIndices
       THEN [acc EXCEPT !.thrown = Error("TypeError: array is undefined")]
       ELSE IF placedGeometry.convert = "throw"
       THEN [acc EXCEPT !.thrown = Error("conversion failed")]
       ELSE [acc EXCEPT
               !.meshes = Append(@, [ifcExpressID |-> null,
                                     geometryExpressID |-> null,
                                     positionCount |-> placedGeometry.verts \div 3,
                                     material |-> MeshPhongMaterial])]

RECURSIVE FirstCopy_processFlatMeshes(_, _, _)
\* for (let i = from; i < flatMeshes.size(); i++)
FirstCopy_processFlatMeshes(acc, flatMeshes, from) ==
  IF from > Len(flatMeshes)
  THEN acc
  ELSE FirstCopy_processFlatMeshes(FirstCopy_processFlatMesh(acc, flatMeshes[from]),
                                   flatMeshes, from + 1)

\* generateGeometry(modelID) of the first copy on an opened document whose
\* LoadAllGeometry returned flatMeshes: the meshes, or what was thrown.
FirstCopy_generateGeometry(flatMeshes) ==
  FirstCopy_processFlatMeshes([meshes |-> << >>, thrown |-> undefined], flatMeshes, 1)

\* The call of generateGeometry the first copy's loadIfcFile makes on the
\* drawn flat meshes; without an engine it returns no mesh.
FirstCopy_extract ==
  /\ LET done == IF fragments.ifcApi = null
                 THEN [meshes |-> << >>, thrown |-> undefined]
                 ELSE FirstCopy_generateGeometry(geomIn)
     IN lastCall' = [Returned("FragmentsService.generateGeometry", "call", undefined,
                              IF done.thrown = undefined THEN "returned" ELSE "threw",
                              done.thrown)
                       EXCEPT !.thrown = done.thrown, !.value = done.meshes]
  /\ UNCHANGED <<ifcApi, isInitialized, isInitializing, engines, loads>>
  /\ UNCHANGED <<callerVars, fragmentVars, serviceVars>>

\* A first-copy FragmentsService whose initialize has completed, about to
\* extract the geometry of a document whose flat meshes are drawn.
InitFirstCopy ==
  /\ ifcApi = null
  /\ isInitialized = FALSE
  /\ isInitializing = FALSE
  /\ engines = << [NewEngine(undefined) EXCEPT !.init = "ok"] >>
  /\ loads = EmptyBag
  /\ lastCall = Returned("FragmentsService.initialize", "resume", undefined, "resolved",
                         undefined)
  /\ geomIn \in DrawnFlatMeshes
  /\ model = undefined
  /\ modelMeshes = << >>
  /\ fragments = [FragmentsService EXCEPT !.scene = TRUE, !.camera = TRUE, !.ifcApi = 1,
                                          !.isInitialized = TRUE]
  /\ fragmentLoads = EmptyBag
  /\ groups = << >>
  /\ scene = {}
  /\ NoServices

NextFirstCopy == FirstCopy_extract

SpecFirstCopy == InitFirstCopy /\ [][NextFirstCopy]_vars

\* ------------------------------------------------------------ ThreejsService
\* The closure `animate` of one startRenderLoop call: which of the two
\* optional callbacks it was given.
RenderLoop(onBeforeRender, onAfterRender) ==
  [onBeforeRender |-> onBeforeRender, onAfterRender |-> onAfterRender]

RenderLoops == {RenderLoop(b, a) : b, a \in BOOLEAN}

\* The calls one run of animate makes, in order, with the service fields
\* as they are when it runs.
animateCalls(loop, service) ==
  (IF loop.onBeforeRender THEN <<"onBeforeRender">> ELSE << >>)
    \o (IF service.controls THEN <<"controls.update">> ELSE << >>)
    \o (IF service.renderer /\ service.scene /\ service.camera
        THEN <<"renderer.render">> ELSE << >>)
    \o (IF loop.onAfterRender THEN <<"onAfterRender">> ELSE << >>)

\* One run of animate: it requests the next animation frame for itself,
\* keeps the id of the request in animationFrameId and makes its calls.
\* fired is the set of requests this run answers (empty for the first run,
\* made by startRenderLoop itself).
animate(op, loop, fired) ==
  /\ nextFrameId <= MaxFrames
  /\ frames' = (frames \ fired) \cup {[id |-> nextFrameId, loop |-> loop]}
  /\ nextFrameId' = nextFrameId + 1
  /\ threejs' = [threejs EXCEPT !.animationFrameId = nextFrameId]
  /\ lastCall' = [Returned(op, "call", loop, "returned", undefined)
                    EXCEPT !.order = animateCalls(loop, threejs)]

\* ThreejsService.initialize(canvas, config): the four objects are created.
Threejs_initialize ==
  /\ threejs' = [threejs EXCEPT !.renderer = TRUE, !.scene = TRUE, !.camera = TRUE,
                                !.controls = TRUE]
  /\ lastCall' = Returned("ThreejsService.initialize", "call", undefined, "returned",
                          undefined)
  /\ UNCHANGED <<frames, nextFrameId>>

\* ThreejsService.startRenderLoop(onBeforeRender, onAfterRender): nothing
\* when one of the four objects is missing, else the first run of animate.
Threejs_startRenderLoop(loop) ==
  IF ~threejs.renderer \/ ~threejs.scene \/ ~threejs.camera \/ ~threejs.controls
  THEN /\ lastCall' = Returned("ThreejsService.startRenderLoop", "call", loop, "returned",
                               undefined)
       /\ UNCHANGED <<threejs, frames, nextFrameId>>
  ELSE animate("ThreejsService.startRenderLoop", loop, {})

\* The browser answers the animation-frame request f: animate runs again.
Threejs_animationFrame(f) ==
  /\ f \in frames
  /\ animate("animate", f.loop, {f})

\* cancelAnimationFrame(id): the request with that id is dropped.
cancelAnimationFrame(requests, id) ==
  {f \in requests : f.id # id}

\* ThreejsService.dispose(): the request whose id is kept is cancelled and
\* every field is set to null.
Threejs_dispose ==
  /\ frames' = IF threejs.animationFrameId # null
               THEN cancelAnimationFrame(frames, threejs.animationFrameId)
               ELSE frames
  /\ threejs' = ThreejsService
  /\ lastCall' = Returned("ThreejsService.dispose", "call", undefined, "returned", undefined)
  /\ UNCHANGED nextFrameId

\* A ThreejsService under any order of calls and animation frames; the
\* loaders are as constructed.
InitThreejs ==
  /\ ifcApi = null
  /\ isInitialized = FALSE
  /\ isInitializing = FALSE
  /\ engines = << >>
  /\ loads = EmptyBag
  /\ lastCall = Returned("none", "call", undefined, "resolved", undefined)
  /\ geomIn = << >>
  /\ model = undefined
  /\ modelMeshes = << >>
  /\ NoFragments
  /\ NoServices

NextThreejs ==
  /\ \/ Threejs_initialize
     \/ \E loop \in RenderLoops : Threejs_startRenderLoop(loop)
     \/ \E f \in frames : Threejs_animationFrame(f)
     \/ Threejs_dispose
  /\ UNCHANGED <<ifcApi, isInitialized, isInitializing, engines, loads, callerVars,
                 fragmentVars, handlerVars, loggerVars>>

SpecThreejs == InitThreejs /\ [][NextThreejs]_vars

\* ------------------------------------------------------------- LoggerService
\* private readonly maxHistorySize = 100
maxHistorySize == 100

\* interface LogEntry.  The timestamp (new Date()) is kept as the number of
\* the entry among the accepted ones: the clock never runs backwards, so
\* entries are stamped in the order they are accepted.
LogEntry(timestamp, level, message, context, data, error) ==
  [timestamp |-> timestamp, level |-> level, message |-> message,
   context |-> context, data |-> data, error |-> error]

\* log without the shift that follows the push.
log_withoutShift(level, message, context, data, error) ==
  IF ~logger.enabled \/ level < logger.minLevel
    THEN UNCHANGED <<logHistory, accepted>>
    ELSE /\ logHistory' = Append(logHistory,
                                 LogEntry(accepted + 1, level, message, context, data, error))
         /\ accepted' = accepted + 1

\* log: a call made while logging is disabled, or below the minimum level,
\* returns at once; otherwise the entry is pushed on the history and the
\* first entry is shifted out when the history got longer than
\* maxHistorySize.  logToConsole writes to the console, and sendToServer
\* returns at once since the environment has no apiUrl: neither changes the
\* service.
log(level, message, context, data, error) ==
  IF ~logger.enabled \/ level < logger.minLevel
    THEN UNCHANGED <<logHistory, accepted>>
    ELSE LET entry == LogEntry(accepted + 1, level, message, context, data, error)
             pushed == Append(logHistory, entry)
         IN  /\ logHistory' = IF Len(pushed) > maxHistorySize THEN Tail(pushed) ELSE pushed
             /\ accepted' = accepted + 1

\* What the callers of the four public methods pass: one message and one
\* context, so that two entries of the history differ in their level and
\* in the moment they were accepted only.
LogMessages == {"Viewer ready"}

LogContexts == {"Viewer"}

\* The level a call is logged at would be accepted.
Accepts(level) ==
  logger.enabled /\ level >= logger.minLevel

\* One of debug, info and warn: log at the method's level, no error.
Logger_call(op, level, message, context, data, error) ==
  /\ Accepts(level) => accepted < MaxLogged
  /\ log(level, message, context, data, error)
  /\ lastCall' = Returned(op, "call",
                          [level |-> level, message |-> message, context |-> context],
                          "returned", undefined)
  /\ UNCHANGED logger

Logger_debug(message, context, data) ==
  Logger_call("LoggerService.debug", LogLevel.Debug, message, context, data, undefined)

Logger_info(message, context, data) ==
  Logger_call("LoggerService.info", LogLevel.Info, message, context, data, undefined)

Logger_warn(message, context, data) ==
  Logger_call("LoggerService.warn", LogLevel.Warn, message, context, data, undefined)

Logger_error(message, error, context, data) ==
  Logger_call("LoggerService.error", LogLevel.Error, message, context, data, error)

\* getHistory returns a copy of the history.
Logger_getHistory ==
  /\ lastCall' = [Returned("LoggerService.getHistory", "call", undefined, "returned", undefined)
                    EXCEPT !.value = logHistory]
  /\ UNCHANGED <<logger, logHistory, accepted>>

\* clearHistory sets the length of the history to 0.
Logger_clearHistory ==
  /\ logHistory' = << >>
  /\ lastCall' = Returned("LoggerService.clearHistory", "call", undefined, "returned", undefined)
  /\ UNCHANGED <<logger, accepted>>

\* getLogLevelFromString, on a level written in lower case.
getLogLevelFromString(level) ==
  CASE level = "debug" -> LogLevel.Debug
    [] level = "info" -> LogLevel.Info
    [] level = "warn" -> LogLevel.Warn
    [] level = "error" -> LogLevel.Error
    [] OTHER -> LogLevel.Info

\* environment.logging of the production environment (enabled, level
\* 'error'), and the same with logging switched off.
LoggingEnvironments ==
  {[enabled |-> e, level |-> "error"] : e \in BOOLEAN}

\* A LoggerService as constructed in one of the environments.
InitLogger ==
  /\ ifcApi = null
  /\ isInitialized = FALSE
  /\ isInitializing = FALSE
  /\ engines = << >>
  /\ loads = EmptyBag
  /\ lastCall = Returned("none", "call", undefined, "resolved", undefined)
  /\ geomIn = << >>
  /\ model = undefined
  /\ modelMeshes = << >>
  /\ NoFragments
  /\ NoThreejs
  /\ NoHandler
  /\ \E environment \in LoggingEnvironments :
       logger = [enabled |-> environment.enabled,
                 minLevel |-> getLogLevelFromString(environment.level)]
  /\ logHistory = << >>
  /\ accepted = 0

NextLogger ==
  /\ \/ \E message \in LogMessages, context \in LogContexts :
          Logger_debug(message, context, undefined)
     \/ \E message \in LogMessages, context \in LogContexts :
          Logger_info(message, context, undefined)
     \/ \E message \in LogMessages, context \in LogContexts :
          Logger_warn(message, context, undefined)
     \/ \E message \in LogMessages, context \in LogContexts :
          Logger_error(message, Error(message), context, undefined)
     \/ Logger_getHistory
     \/ Logger_clearHistory
  /\ UNCHANGED <<ifcApi, isInitialized, isInitializing, engines, loads,
                 callerVars, fragmentVars, renderVars, handlerVars>>

SpecLogger == InitLogger /\ [][NextLogger]_vars

\* ----------------------------------------------------------- AppErrorHandler
\* The listener functions handed to onError: what a listener does when it
\* is called (it returns, it throws, or it calls the function its own
\* onError call returned, and returns), and which of two such functions
\* it is.
Listeners ==
  {[id |-> i, does |-> d] : i \in 1..2, d \in {"return", "throw", "unsubscribe"}}

\* One onError call: the listener it registered, and whether the function
\* it returned has been called since.
Registration(listener, unsubscribed) ==
  [listener |-> listener, unsubscribed |-> unsubscribed]

\* Array.prototype.indexOf on errorListeners: the index, from 0, of the
\* first element that is the listener, or -1.
indexOf(list, listener) ==
  IF \E i \in 1..Len(list) : list[i] = listener
    THEN (CHOOSE i \in 1..Len(list) :
            /\ list[i] = listener
            /\ \A j \in 1..(i - 1) : list[j] # listener) - 1
    ELSE -1

\* Array.prototype.splice(index, 1): the array without the element at index.
splice(list, index) ==
  SubSeq(list, 1, index) \o SubSeq(list, index + 2, Len(list))

\* The body of the function onError returns, on the array.
removeListener(list, listener) ==
  LET index == indexOf(list, listener)
  IN  IF index >= 0 THEN splice(list, index) ELSE list

\* onError pushes the listener and returns the function that removes it;
\* the function is known by the number of the onError call.
onError(listener) ==
  /\ Len(registrations) < MaxRegistrations
  /\ errorListeners' = Append(errorListeners, listener)
  /\ registrations' = Append(registrations, Registration(listener, FALSE))
  /\ lastCall' = [Returned("AppErrorHandler.onError", "call", listener, "returned", undefined)
                    EXCEPT !.value = Len(registrations) + 1]

\* A call of the function returned by the r-th onError call.
unsubscribe(r) ==
  /\ r \in 1..Len(registrations)
  /\ errorListeners' = removeListener(errorListeners, registrations[r].listener)
  /\ registrations' = [registrations EXCEPT ![r].unsubscribed = TRUE]
  /\ lastCall' = Returned("unsubscribe", "call", r, "returned", undefined)

\* error instanceof AppError: AppError and the classes that extend it.
instanceofAppError(error) ==
  error.name \in {"AppError", "ViewerInitError", "IfcLoadError", "WasmLoadError"}

\* String(error) of a value that is a number.
String(error) ==
  ToString(error.value)

normalizeError(error) ==
  IF instanceofAppError(error)
    THEN error
    ELSE IF error.name = "Error"
      THEN AppError([code |-> "UNKNOWN_ERROR", message |-> error.message,
                     recoverable |-> TRUE, context |-> undefined,
                     originalError |-> error])
      ELSE AppError([code |-> "UNKNOWN_ERROR", message |-> String(error),
                     recoverable |-> TRUE, context |-> undefined,
                     originalError |-> undefined])

\* errorListeners.forEach from index k on: forEach reads the length once,
\* before the first call, and visits an index only if the array still has
\* it when its turn comes.  A listener that throws is caught and reported
\* on the console; one that unsubscribes changes the array being visited.
\* The result is the array afterwards and the listeners called, in the
\* order of the calls.
RECURSIVE forEach(_, _, _, _)
forEach(list, k, len, called) ==
  IF k >= len
    THEN [errorListeners |-> list, called |-> called]
    ELSE IF k >= Len(list)
      THEN forEach(list, k + 1, len, called)
      ELSE LET listener == list[k + 1]
               after == IF listener.does = "unsubscribe"
                          THEN removeListener(list, listener)
                          ELSE list
           IN  forEach(after, k + 1, len, Append(called, listener))

notifyListeners(error) ==
  forEach(errorListeners, 0, Len(errorListeners), << >>)

\* The onError calls after the listeners in called ran: a listener that
\* unsubscribes calls the function it was given when it was first
\* registered.
afterListeners(called) ==
  [r \in DOMAIN registrations |->
     LET listener == registrations[r].listener
     IN  IF /\ listener.does = "unsubscribe"
            /\ \E i \in DOMAIN called : called[i] = listener
            /\ \A q \in 1..(r - 1) : registrations[q].listener # listener
           THEN Registration(listener, TRUE)
           ELSE registrations[r]]

\* handleError: normalize, logger.error(message, originalError or a new
\* Error, code, context), then notify.  It returns whatever the listeners do.
handleError(error) ==
  LET appError == normalizeError(error)
      logged == IF appError.originalError # undefined
                  THEN appError.originalError
                  ELSE Error(appError.message)
      notified == notifyListeners(appError)
  IN  /\ Accepts(LogLevel.Error) => accepted < MaxErrors
      /\ log(LogLevel.Error, appError.message, appError.code, appError.context, logged)
      /\ errorListeners' = notified.errorListeners
      /\ lastCall' = [Returned("AppErrorHandler.handleError", "call", error, "returned", undefined)
                        EXCEPT !.value = appError, !.visits = notified.called]
      /\ registrations' = afterListeners(notified.called)
      /\ UNCHANGED logger

\* What is handed to handleError: an AppError of a subclass, a plain Error,
\* and a value that is no Error.
HandledErrors ==
  { IfcLoadError("Failed to load IFC file", Error("read failed"), [fileName |-> "a.ifc"]),
    Error("boom"),
    [name |-> "number", value |-> 404] }

\* An AppErrorHandler as constructed, with the LoggerService of one of the
\* environments.
InitHandler ==
  /\ ifcApi = null
  /\ isInitialized = FALSE
  /\ isInitializing = FALSE
  /\ engines = << >>
  /\ loads = EmptyBag
  /\ lastCall = Returned("none", "call", undefined, "resolved", undefined)
  /\ geomIn = << >>
  /\ model = undefined
  /\ modelMeshes = << >>
  /\ NoFragments
  /\ NoThreejs
  /\ NoHandler
  /\ \E environment \in LoggingEnvironments :
       logger = [enabled |-> environment.enabled,
                 minLevel |-> getLogLevelFromString(environment.level)]
  /\ logHistory = << >>
  /\ accepted = 0

NextHandler ==
  /\ \/ /\ \E listener \in Listeners : onError(listener)
        /\ UNCHANGED loggerVars
     \/ /\ \E r \in 1..Len(registrations) : unsubscribe(r)
        /\ UNCHANGED loggerVars
     \/ \E error \in HandledErrors : handleError(error)
  /\ UNCHANGED <<ifcApi, isInitialized, isInitializing, engines, loads,
                 callerVars, fragmentVars, renderVars>>

SpecHandler == InitHandler /\ [][NextHandler]_vars

\* ------------------------------------------------------------- specification
Init ==
  /\ ifcApi = null
  /\ isInitialized = FALSE
  /\ isInitializing = FALSE
  /\ engines = << >>
  /\ loads = EmptyBag
  /\ lastCall = Returned("none", "call", undefined, "resolved", undefined)
  /\ geomIn = << >>
  /\ model = undefined
  /\ modelMeshes = << >>
  /\ NoFragments
  /\ NoServices

Next ==
  \/ /\ \E config \in Configs : initialize(config)
     /\ UNCHANGED <<callerVars, fragmentVars, serviceVars>>
  \/ /\ \E e \in DOMAIN engines, initOutcome \in {"ok", "fail"} :
           initializeResume(e, initOutcome)
     /\ UNCHANGED <<callerVars, fragmentVars, serviceVars>>
  \/ /\ \E file \in Files, hasSink \in BOOLEAN, throwAt \in {0, 10} :
           loadIfcFile(file, hasSink, throwAt)
     /\ UNCHANGED <<callerVars, fragmentVars, serviceVars>>
  \/ /\ \E call \in InFlight, run \in Runs :
           loadIfcFileResume(call, run.document, run.throwAt)
     /\ UNCHANGED <<callerVars, fragmentVars, serviceVars>>
  \/ /\ dispose
     /\ UNCHANGED <<callerVars, fragmentVars, serviceVars>>

Spec == Init /\ [][Next]_vars

\* The Init() promise of some engine settles and the continuation of the
\* initialize call that awaits it runs.
InitSettles ==
  /\ \E e \in DOMAIN engines, initOutcome \in {"ok", "fail"} :
       initializeResume(e, initOutcome)
  /\ UNCHANGED <<callerVars, fragmentVars, serviceVars>>

\* The loader when every pending Init() settles: a promise that stays
\* pending forever is excluded, and the event loop runs the continuation of
\* a settled promise.
SpecSettling == Spec /\ WF_vars(InitSettles)

\* ------------------------------------------- loads of drawn documents
\* An initialized loader (one engine, its Init resolved) with one
\* loadIfcFile call suspended at its file read, and the flat meshes its
\* document turns out to hold drawn from inputs.
InitDrawn(inputs) ==
  /\ ifcApi = 1
  /\ isInitialized = TRUE
  /\ isInitializing = FALSE
  /\ engines = << [NewEngine(undefined) EXCEPT !.init = "ok"] >>
  /\ \E file \in Files, hasSink \in BOOLEAN :
       LET try == onProgress(TryBlock(hasSink), 0, 10, "reading") IN
       /\ loads = SetToBag({[file |-> file, try |-> try]})
       /\ lastCall = [Returned("loadIfcFile", "call", file, "suspended", undefined)
                        EXCEPT !.hasSink = hasSink, !.events = try.events,
                               !.order = try.order, !.logged = <<logLoading(file)>>]
  /\ geomIn \in inputs
  /\ model = undefined
  /\ modelMeshes = << >>
  /\ NoFragments
  /\ NoServices

\* The suspended load resumes on a document that reads and opens and whose
\* LoadAllGeometry returns the drawn flat meshes.
NextDrawn ==
  /\ \E call \in InFlight :
       loadIfcFileResume(call, Document("ok", "ok", "ok", "ok", geomIn), 0)
  /\ UNCHANGED <<callerVars, fragmentVars, serviceVars>>

InitGeometry == InitDrawn(DrawnFlatMeshes)

SpecGeometry == InitGeometry /\ [][NextDrawn]_vars

InitMaterial == InitDrawn(ColouredFlatMeshes)

SpecMaterial == InitMaterial /\ [][NextDrawn]_vars

\* ------------------------------------------------------------------ IfcModel
\* The caller keeps the IfcModel a load returned: the children of its group
\* become mesh objects of their own, each with a geometry and a material
\* that count the dispose() calls made on them.
Hold(loaded) ==
  /\ model' = [loaded EXCEPT !.modelGroup = [k \in 1..Len(loaded.modelGroup) |-> k]]
  /\ modelMeshes' = [k \in 1..Len(loaded.modelGroup) |->
                       [mesh |-> loaded.modelGroup[k],
                        geometryDisposals |-> 0,
                        materialDisposals |-> 0]]

\* ensureNotDisposed that never throws.
ensureNotDisposed_never(m) ==
  TRUE

\* ensureNotDisposed(): TRUE when it returns, FALSE when it throws.
ensureNotDisposed(m) ==
  ~m.disposed

\* What a getter of the model leaves in lastCall: it returned value, or it
\* threw the error of ensureNotDisposed.
Got(getter, passes, value) ==
  IF passes
  THEN [Returned(getter, "call", undefined, "returned", undefined) EXCEPT !.value = value]
  ELSE Returned(getter, "call", undefined, "threw", Error("Cannot access disposed IFC model"))

\* get modelGroup()
getModelGroup ==
  /\ model # undefined
  /\ lastCall' = Got("modelGroup", ensureNotDisposed(model), model.modelGroup)
  /\ UNCHANGED <<ifcApi, isInitialized, isInitializing, engines, loads, callerVars,
               fragmentVars, serviceVars>>

\* get metadata()
getMetadata ==
  /\ model # undefined
  /\ lastCall' = Got("metadata", TRUE, model.metadata)
  /\ UNCHANGED <<ifcApi, isInitialized, isInitializing, engines, loads, callerVars,
               fragmentVars, serviceVars>>

\* get rawData()
getRawData ==
  /\ model # undefined
  /\ lastCall' = Got("rawData", ensureNotDisposed(model), model.rawData)
  /\ UNCHANGED <<ifcApi, isInitialized, isInitializing, engines, loads, callerVars,
               fragmentVars, serviceVars>>

\* get isDisposed()
getIsDisposed ==
  /\ model # undefined
  /\ lastCall' = Got("isDisposed", TRUE, model.disposed)
  /\ UNCHANGED <<ifcApi, isInitialized, isInitializing, engines, loads, callerVars,
               fragmentVars, serviceVars>>

\* disposeMeshes that leaves the materials alone.
disposeMeshes_geometryOnly(children, objects) ==
  [k \in DOMAIN objects |->
     IF \E c \in DOMAIN children : children[c] = k
     THEN [objects[k] EXCEPT !.geometryDisposals = @ + 1]
     ELSE objects[k]]

\* The traverse of dispose(): geometry.dispose() and material.dispose()
\* on every mesh the group holds.
disposeMeshes(children, objects) ==
  [k \in DOMAIN objects |->
     IF \E c \in DOMAIN children : children[c] = k
     THEN [objects[k] EXCEPT !.geometryDisposals = @ + 1, !.materialDisposals = @ + 1]
     ELSE objects[k]]

\* The model after the body of dispose() below its guard, which also
\* resets the counts of the metadata.
disposed_countsReset(m) ==
  [m EXCEPT !.modelGroup = << >>, !.disposed = TRUE,
            !.metadata = [@ EXCEPT !.meshCount = 0, !.vertexCount = 0]]

\* The model after the body of dispose() below its guard: the group is
\* cleared and the flag set.
disposed(m) ==
  [m EXCEPT !.modelGroup = << >>, !.disposed = TRUE]

\* IfcModel.dispose()
modelDispose ==
  /\ model # undefined
  /\ IF model.disposed
     THEN UNCHANGED <<model, modelMeshes>>
     ELSE /\ modelMeshes' = disposeMeshes(model.modelGroup, modelMeshes)
          /\ model' = disposed(model)
  /\ lastCall' = Returned("IfcModel.dispose", "call", undefined, "returned", undefined)
  /\ UNCHANGED <<ifcApi, isInitialized, isInitializing, engines, loads, geomIn, fragmentVars,
                 serviceVars>>

\* The documents whose model the caller holds: one part of up to
\* MaxPlacements placements that give a mesh, are skipped or are caught.
ModelFlatMeshes ==
  {FlatMeshesOf(layout) : layout \in
     {l \in Layouts : \A p \in 1..Len(l) :
        /\ l[p][1] \in {"opaque", "translucent", "emptyIndices", "convertThrows"}
        /\ p > 1 => ~l[p][2]}}

InitModel == InitDrawn(ModelFlatMeshes)

\* The loader goes on loading (the drawn document, or a file OpenModel
\* rejects) while the caller uses and disposes the first model returned.
NextModel ==
  \/ /\ \E file \in Files, hasSink \in BOOLEAN : loadIfcFile(file, hasSink, 0)
     /\ UNCHANGED <<callerVars, fragmentVars, serviceVars>>
  \/ /\ \E call \in InFlight, open \in {"ok", "throw"} :
           loadIfcFileResume(call, Document("ok", open, "ok", "ok", geomIn), 0)
     /\ IF model = undefined /\ lastCall'.outcome = "resolved"
        THEN Hold(lastCall'.model)
        ELSE UNCHANGED <<model, modelMeshes>>
     /\ UNCHANGED <<geomIn, fragmentVars, serviceVars>>
  \/ getModelGroup
  \/ getMetadata
  \/ getRawData
  \/ getIsDisposed
  \/ modelDispose

SpecModel == InitModel /\ [][NextModel]_vars

\* ---------------------------------------------------------------- properties
\* The step just taken is the given phase ("call" or "resume") of op.
Step(op, phase) ==
  lastCall'.op = op /\ lastCall'.phase = phase

\* The last step was the given phase of op.
Last(op, phase) ==
  lastCall.op = op /\ lastCall.phase = phase

LoaderState == <<ifcApi, isInitialized, isInitializing, engines, loads>>

\* C1: an initialize call made while the initializing flag is held by a call
\* awaiting Init is rejected with the already-in-progress Error and changes
\* nothing (it is not queued, no engine is created, the flag stays set, the
\* pending Init stays pending); and a call whose Init resolves while the flag
\* is set resolves.
C1_ConcurrentInitializeRejected ==
  [][ /\ (isInitializing /\ Step("initialize", "call"))
         => /\ lastCall'.outcome = "rejected"
            /\ lastCall'.error = Error("IFC Loader initialization already in progress")
            /\ UNCHANGED LoaderState
            /\ PendingInits' = PendingInits /\ PendingInits # {}
      /\ (isInitializing /\ Step("initialize", "resume") /\ SucceededInits' # SucceededInits)
         => lastCall'.outcome = "resolved" /\ isInitialized'
    ]_vars

\* C1 witness: a second initialize has just been rejected while the first
\* is still awaiting Init.
C1_Witness ==
  /\ Last("initialize", "call")
  /\ lastCall.outcome = "rejected"
  /\ isInitializing
  /\ PendingInits # {}

\* C2: an initialize call made when isInitialized is set (an initialize has
\* succeeded and the loader was not disposed since) resolves and changes
\* nothing: no engine is created, no Init is called, the flags and the held
\* engine stay as they are.
C2_InitializeIdempotent ==
  [][ (isInitialized /\ Step("initialize", "call"))
        => /\ lastCall'.outcome = "resolved"
           /\ UNCHANGED LoaderState
    ]_vars

\* C2 witness: initialize has just returned as a no-op on an initialized
\* loader.
C2_Witness ==
  /\ Last("initialize", "call")
  /\ lastCall.outcome = "resolved"
  /\ isInitialized
  /\ Cardinality(SucceededInits) = 1

\* C3: IfcAPI.Init completes successfully at most once over the life of the
\* process, whatever initialize, loadIfcFile and dispose calls are made.
C3_InitSucceedsAtMostOnce ==
  Cardinality(SucceededInits) <= 1

\* C4: when the Init awaited by initialize rejects, the call rejects with a
\* WasmLoadError (WASM_LOAD_FAILED, not recoverable) whose context is the
\* attempted wasm path, and the loader is uninitialized: isInitialized
\* false, ifcApi null, isInitializing false.
C4_FailedSetupLeavesUninitialized ==
  (Last("initialize", "resume") /\ lastCall.outcome = "rejected")
    => /\ lastCall.error.name = "WasmLoadError"
       /\ lastCall.error.code = "WASM_LOAD_FAILED"
       /\ lastCall.error.recoverable = FALSE
       /\ lastCall.error.context = [wasmPath |-> lastCall.arg.wasm.path]
       /\ isInitialized = FALSE
       /\ ifcApi = null
       /\ isInitializing = FALSE

\* C5: a loadIfcFile call made before setup has completed (no Init has ever
\* succeeded, or an initialize call is still awaiting Init) is rejected with
\* a recoverable IfcLoadError, hands no event to the sink, opens no document
\* and changes no loader state.
C5_LoadBeforeSetupRejected ==
  [][ (Step("loadIfcFile", "call") /\ (SucceededInits = {} \/ PendingInits # {}))
        => /\ lastCall'.outcome = "rejected"
           /\ lastCall'.error.name = "IfcLoadError"
           /\ lastCall'.error.recoverable = TRUE
           /\ lastCall'.events = << >>
           /\ lastCall'.opened = FALSE
           /\ UNCHANGED LoaderState
    ]_vars

C7_AtMostOneOpenDocument ==
  \A e \in DOMAIN engines : engines[e].open <= 1

\* C8: when a loadIfcFile call settles, successfully or not, the handle its
\* OpenModel returned has been closed by CloseModel.
C8_HandleClosedWhenLoadSettles ==
  (lastCall.op = "loadIfcFile" /\ lastCall.outcome # "suspended" /\ lastCall.opened)
    => lastCall.closed

\* C9: the sink of a successful loadIfcFile call has received exactly the
\* five events 10 reading, 30 parsing, 50 geometry, 90 rendering and
\* 100 complete, in this order.
C9_SuccessfulLoadProgress ==
  (lastCall.op = "loadIfcFile" /\ lastCall.outcome = "resolved" /\ lastCall.hasSink)
    => lastCall.events = << IfcLoadProgress(10, "reading"),
                            IfcLoadProgress(30, "parsing"),
                            IfcLoadProgress(50, "geometry"),
                            IfcLoadProgress(90, "rendering"),
                            IfcLoadProgress(100, "complete") >>

\* C9 witness: a load with a sink has resolved with a model that holds
\* meshes.
C9_Witness ==
  /\ Last("loadIfcFile", "resume")
  /\ lastCall.outcome = "resolved"
  /\ lastCall.hasSink
  /\ Len(lastCall.model.modelGroup) > 0

\* A loadIfcFile step that left its try block by a throw.
PipelineFailed ==
  /\ lastCall.op = "loadIfcFile"
  /\ lastCall.outcome = "rejected"
  /\ lastCall.thrown.name # "undefined"

\* C10: a failure inside the try block of loadIfcFile (file read,
\* OpenModel, geometry extraction, finalization, a throwing sink) rejects the
\* call with an IfcLoadError (IFC_LOAD_FAILED, recoverable) whose context is
\* the file's name and size and whose originalError is the failure; no model
\* is returned.
C10_PipelineFailureIsIfcLoadError ==
  PipelineFailed
    => /\ lastCall.error.name = "IfcLoadError"
       /\ lastCall.error.code = "IFC_LOAD_FAILED"
       /\ lastCall.error.recoverable = TRUE
       /\ lastCall.error.context = [fileName |-> lastCall.arg.name,
                                    fileSize |-> lastCall.arg.size]
       /\ lastCall.error.originalError = lastCall.thrown
       /\ lastCall.model = undefined

\* C10 witness: a load has just been rejected because OpenModel threw on
\* the bytes read.
C10_Witness ==
  /\ PipelineFailed
  /\ Last("loadIfcFile", "resume")
  /\ lastCall.thrown = Error("OpenModel threw")

\* ---------------------------------------------- properties of failed loads
\* C11: a FragmentsService.loadIfcFile call that fails (it settles with
\* null) while a model group is current leaves that group as it was: it is
\* still the current model group, still a child of the scene, and the
\* geometry and materials of its meshes have not been disposed by the call.
C11_FailedLoadKeepsPreviousModel ==
  [][ LET previous == fragments.currentModelGroup IN
      ( /\ lastCall'.op = "FragmentsService.loadIfcFile"
        /\ lastCall'.outcome # "suspended"
        /\ lastCall'.value = null
        /\ previous # null
        /\ previous \in scene )
        => /\ fragments'.currentModelGroup = previous
           /\ previous \in scene'
           /\ groups'[previous].disposeGroupCalls = groups[previous].disposeGroupCalls
    ]_vars

\* ------------------------------------------- properties of the extraction
RECURSIVE PlacementsOf(_)
\* The placements of the flat meshes, in the order of the two loops.
PlacementsOf(flatMeshes) ==
  IF flatMeshes = << >>
  THEN << >>
  ELSE flatMeshes[1].geometries \o PlacementsOf(Tail(flatMeshes))

\* The placements of the drawn document.
Drawn == PlacementsOf(geomIn)

\* A placement of which neither GetGeometry nor the conversion throws.
Converts(placedGeometry) ==
  placedGeometry.getGeometry = "ok" /\ placedGeometry.convert = "ok"

\* A placement with a vertex and an index array that are not empty.
HasData(placedGeometry) ==
  /\ placedGeometry.hasVerts /\ placedGeometry.verts > 0
  /\ placedGeometry.hasIndices /\ placedGeometry.indices > 0

\* The load of the drawn document has settled.
DrawnLoadSettled ==
  Last("loadIfcFile", "resume") /\ geomIn # << >>

\* The meshes of the model the load returned.
LoadedMeshes == lastCall.model.modelGroup

\* The geometryExpressID tags of a sequence of meshes or placements.
TagsOf(seq) == [k \in 1..Len(seq) |-> seq[k].geometryExpressID]

\* C12: when exactly one placement of a document of N placements throws
\* (at GetGeometry or while it is converted) and the others are valid, the
\* extraction visits all N placements in order, the load resolves, and the
\* model holds the N-1 meshes of the other placements, in order.
C12_OneThrowDoesNotAbortBatch ==
  LET throwing == {k \in 1..Len(Drawn) : ~Converts(Drawn[k])} IN
  ( /\ DrawnLoadSettled
    /\ Cardinality(throwing) = 1
    /\ \A k \in 1..Len(Drawn) :
         HasData(Drawn[k]) \/ (k \in throwing /\ Drawn[k].getGeometry = "throw") )
    => /\ lastCall.outcome = "resolved"
       /\ TagsOf(lastCall.visits) = TagsOf(Drawn)
       /\ Len(LoadedMeshes) = Len(Drawn) - 1
       /\ lastCall.model.metadata.meshCount = Len(Drawn) - 1
       /\ TagsOf(LoadedMeshes) = TagsOf(SelectSeq(Drawn, Converts))

\* C12 witness: the second of three placements threw while it was
\* converted, and the load resolved with the two other meshes.
C12_Witness ==
  /\ DrawnLoadSettled
  /\ lastCall.outcome = "resolved"
  /\ Len(Drawn) = 3
  /\ Drawn[2].convert = "throw" /\ HasData(Drawn[2])
  /\ Converts(Drawn[1]) /\ HasData(Drawn[1])
  /\ Converts(Drawn[3]) /\ HasData(Drawn[3])
  /\ TagsOf(LoadedMeshes) = << 1, 3 >>

\* C13: a placement whose vertex or index array is missing or empty (and
\* whose GetGeometry returns) is skipped: it gives no mesh, it does not go
\* through the catch block, its native geometry is acquired once and
\* released once, the placements after it are visited and the load resolves.
C13_EmptyPlacementSkipped ==
  DrawnLoadSettled
    => /\ lastCall.outcome = "resolved"
       /\ Len(lastCall.visits) = Len(Drawn)
       /\ \A k \in 1..Len(Drawn) :
            (Drawn[k].getGeometry = "ok" /\ ~HasData(Drawn[k]))
              => /\ lastCall.visits[k] = Visit(Drawn[k], 1, 1, "skipped")
                 /\ \A m \in 1..Len(LoadedMeshes) :
                      LoadedMeshes[m].geometryExpressID # Drawn[k].geometryExpressID

\* C13 witness: a placement without a vertex array was skipped and the
\* valid placement after it gave a mesh.
C13_Witness ==
  /\ DrawnLoadSettled
  /\ Len(Drawn) = 2
  /\ ~Drawn[1].hasVerts /\ Drawn[1].getGeometry = "ok"
  /\ lastCall.visits[1].result = "skipped"
  /\ TagsOf(LoadedMeshes) = << 2 >>

\* C14: every native geometry object GetGeometry handed out for a placement
\* has been released exactly once when the loop leaves the placement, so
\* that none is left unreleased when generateGeometry returns.
C14_NativeGeometryReleasedOnce ==
  DrawnLoadSettled
    => \A k \in 1..Len(lastCall.visits) :
         lastCall.visits[k].released = lastCall.visits[k].acquired

\* C15: the material of every mesh has transparent = (alpha < 0.99) and
\* depthWrite = (alpha >= 0.99) for the alpha of its placement, so the two
\* are opposite; alpha 1.0 gives transparent false and depthWrite true,
\* alpha 0.5 transparent true and depthWrite false, alpha 0.995 transparent
\* false.
C15_TransparencyFollowsAlpha ==
  (DrawnLoadSettled /\ lastCall.outcome = "resolved")
    => \A m \in 1..Len(LoadedMeshes) :
         \A k \in 1..Len(Drawn) :
           Drawn[k].geometryExpressID = LoadedMeshes[m].geometryExpressID
             => LET alpha == Drawn[k].color.w
                    material == LoadedMeshes[m].material
                IN /\ material.transparent = (alpha < 990)
                   /\ material.depthWrite = (alpha >= 990)
                   /\ material.transparent # material.depthWrite
                   /\ alpha = 1000 => (~material.transparent /\ material.depthWrite)
                   /\ alpha = 500 => (material.transparent /\ ~material.depthWrite)
                   /\ alpha = 995 => ~material.transparent

\* C15 witness: a placement of alpha 0.995 gave a mesh that is not
\* transparent.
C15_Witness ==
  /\ DrawnLoadSettled
  /\ Len(LoadedMeshes) = 1
  /\ Drawn[1].color.w = 995
  /\ ~LoadedMeshes[1].material.transparent

\* A channel value brought into [0, 1] (thousandths).
InUnitRange(channel) ==
  IF channel < 0 THEN 0 ELSE IF channel > 1000 THEN 1000 ELSE channel

\* C16: the red, green and blue channels and the opacity of every mesh's
\* material lie within [0, 1] and are the channels of its placement's
\* colour brought into that range; a channel already in range is unchanged.
C16_ChannelsClamped ==
  (DrawnLoadSettled /\ lastCall.outcome = "resolved")
    => \A m \in 1..Len(LoadedMeshes) :
         \A k \in 1..Len(Drawn) :
           Drawn[k].geometryExpressID = LoadedMeshes[m].geometryExpressID
             => LET color == Drawn[k].color
                    material == LoadedMeshes[m].material
                IN /\ {material.color.r, material.color.g, material.color.b,
                       material.opacity} \subseteq 0..1000
                   /\ material.color.r = InUnitRange(color.x)
                   /\ material.color.g = InUnitRange(color.y)
                   /\ material.color.b = InUnitRange(color.z)
                   /\ material.opacity = InUnitRange(color.w)

\* C16 witness: a colour with a channel below 0, one above 1 and an alpha
\* above 1 gave a material with red 0, green 1 and opacity 1.
C16_Witness ==
  /\ DrawnLoadSettled
  /\ Len(LoadedMeshes) = 1
  /\ Drawn[1].color.x < 0 /\ Drawn[1].color.y > 1000 /\ Drawn[1].color.w > 1000
  /\ LoadedMeshes[1].material.color.r = 0
  /\ LoadedMeshes[1].material.color.g = 1000
  /\ LoadedMeshes[1].material.opacity = 1000

RECURSIVE VerticesOf(_)
\* The vertices of the placements that have data and convert.
VerticesOf(placements) ==
  IF placements = << >>
  THEN 0
  ELSE (IF HasData(placements[1]) /\ Converts(placements[1])
        THEN placements[1].verts \div 3
        ELSE 0) + VerticesOf(Tail(placements))

\* The meshes of the model whose material is transparent.
TransparentMeshes ==
  {m \in 1..Len(LoadedMeshes) : LoadedMeshes[m].material.transparent}

\* The drawn document has three placements: one with an empty index array,
\* one valid with alpha 0.3 and one valid and opaque.
ThreePlacementFile ==
  /\ Len(Drawn) = 3
  /\ \E i, j, k \in 1..3 :
       /\ {i, j, k} = 1..3
       /\ Drawn[i] = EmptyIndices(i)
       /\ Drawn[j].color.w = 300 /\ HasData(Drawn[j]) /\ Converts(Drawn[j])
       /\ Drawn[k].color.w = 1000 /\ HasData(Drawn[k]) /\ Converts(Drawn[k])

\* C20: on a successful load metadata.meshCount is the number of meshes in
\* the model group, which is the number of placements that have data and
\* convert without exception, and metadata.vertexCount is the sum of their
\* vertex counts; the file with an empty-index, an alpha-0.3 and an opaque
\* placement gives meshCount 2 with one transparent and one opaque mesh.
C20_MetadataCountsMeshes ==
  (DrawnLoadSettled /\ lastCall.outcome = "resolved")
    => LET metadata == lastCall.model.metadata IN
       /\ metadata.meshCount = Len(LoadedMeshes)
       /\ metadata.meshCount
            = Cardinality({k \in 1..Len(Drawn) : HasData(Drawn[k]) /\ Converts(Drawn[k])})
       /\ metadata.vertexCount = VerticesOf(Drawn)
       /\ ThreePlacementFile
            => /\ metadata.meshCount = 2
               /\ Cardinality(TransparentMeshes) = 1
               /\ Cardinality(1..Len(LoadedMeshes) \ TransparentMeshes) = 1

\* C20 witness: the three-placement file has been loaded.
C20_Witness ==
  /\ DrawnLoadSettled
  /\ lastCall.outcome = "resolved"
  /\ ThreePlacementFile
  /\ lastCall.model.metadata.vertexCount = 7

\* ------------------------------------------------- properties of IfcModel
\* The dispose() calls made so far on the geometry and on the material of
\* every mesh built for the held model.
DisposalsOf(objects) ==
  [k \in DOMAIN objects |-> << objects[k].geometryDisposals, objects[k].materialDisposals >>]

\* C17: the first IfcModel.dispose call disposes the geometry and the
\* material of every mesh of the group exactly once, clears the group and
\* sets the disposed flag; a later call changes nothing and throws nothing;
\* no geometry or material is ever disposed twice.
C17_DisposeIdempotent ==
  [][ /\ (Step("IfcModel.dispose", "call") /\ ~model.disposed)
         => /\ DisposalsOf(modelMeshes) = [k \in DOMAIN modelMeshes |-> << 0, 0 >>]
            /\ DisposalsOf(modelMeshes') = [k \in DOMAIN modelMeshes |-> << 1, 1 >>]
            /\ model'.modelGroup = << >>
            /\ model'.disposed
            /\ lastCall'.outcome = "returned"
      /\ (Step("IfcModel.dispose", "call") /\ model.disposed)
         => /\ UNCHANGED <<model, modelMeshes>>
            /\ lastCall'.outcome = "returned"
      /\ \A k \in DOMAIN modelMeshes' :
           modelMeshes'[k].geometryDisposals <= 1 /\ modelMeshes'[k].materialDisposals <= 1
    ]_vars

\* C17 witness: dispose has just been called on a model that was already
\* disposed and whose two meshes were released by the first call.
C17_Witness ==
  /\ Last("IfcModel.dispose", "call")
  /\ model.disposed
  /\ DisposalsOf(modelMeshes) = << << 1, 1 >>, << 1, 1 >> >>

\* C18: on a disposed model the modelGroup and rawData getters throw the
\* accessed-after-dispose Error and the metadata getter returns the
\* metadata; before disposal the two getters return the group and the raw
\* data; the disposed flag never goes back from true to false.
C18_AccessAfterDisposeFails ==
  [][ /\ (model # undefined /\ (Step("modelGroup", "call") \/ Step("rawData", "call")))
         => IF model.disposed
            THEN /\ lastCall'.outcome = "threw"
                 /\ lastCall'.error = Error("Cannot access disposed IFC model")
            ELSE /\ lastCall'.outcome = "returned"
                 /\ lastCall'.value = IF lastCall'.op = "modelGroup"
                                      THEN model.modelGroup
                                      ELSE model.rawData
      /\ (model # undefined /\ Step("metadata", "call"))
         => lastCall'.outcome = "returned" /\ lastCall'.value = model.metadata
      /\ (model # undefined /\ model.disposed) => model'.disposed
    ]_vars

\* C18 witness: the modelGroup getter has just thrown on a disposed model.
C18_Witness ==
  /\ Last("modelGroup", "call")
  /\ lastCall.outcome = "threw"
  /\ model.disposed

\* C19: the metadata of a model is the record built by the load that
\* returned it and no later step changes it, whether a getter, dispose or a
\* later load of the loader: the metadata getter keeps returning the id,
\* file name, size, mesh count and vertex count of construction.
C19_MetadataImmutable ==
  [][ /\ (model = undefined /\ model' # undefined)
         => /\ Step("loadIfcFile", "resume")
            /\ model'.metadata = lastCall'.model.metadata
            /\ model'.metadata.meshCount = Len(modelMeshes')
      /\ model # undefined
         => /\ model'.metadata = model.metadata
            /\ Step("metadata", "call") => lastCall'.value = model.metadata
            /\ model'.metadata.meshCount = Len(modelMeshes')
    ]_vars

\* C19 witness: the model has been disposed, a later load has just
\* resolved, and the metadata still counts the two meshes of construction.
C19_Witness ==
  /\ Last("loadIfcFile", "resume")
  /\ lastCall.outcome = "resolved"
  /\ model # undefined
  /\ model.disposed
  /\ model.modelGroup = << >>
  /\ model.metadata.meshCount = 2
  /\ model.metadata.vertexCount = 7

\* ------------------------------------- properties of the extraction order
RECURSIVE TaggedPlacementsOf(_)
\* The placements of the flat meshes in the order of the two loops, each
\* with the identifier of its part.
TaggedPlacementsOf(flatMeshes) ==
  IF flatMeshes = << >>
  THEN << >>
  ELSE [k \in 1..Len(flatMeshes[1].geometries) |->
          [ifcExpressID |-> flatMeshes[1].expressID,
           placedGeometry |-> flatMeshes[1].geometries[k]]]
       \o TaggedPlacementsOf(Tail(flatMeshes))

\* A placement that yields a mesh: nothing throws and its arrays hold data.
ValidPlacement(tagged) ==
  Converts(tagged.placedGeometry) /\ HasData(tagged.placedGeometry)

\* The two tags of each element of a sequence of meshes.
TagPairsOf(meshes) ==
  [k \in 1..Len(meshes) |-> <<meshes[k].ifcExpressID, meshes[k].geometryExpressID>>]

\* The tags the valid placements of the drawn document have, by part index
\* and then by placement index.
ExpectedTagPairs ==
  LET valid == SelectSeq(TaggedPlacementsOf(geomIn), ValidPlacement)
  IN [k \in 1..Len(valid) |->
        <<valid[k].ifcExpressID, valid[k].placedGeometry.geometryExpressID>>]

\* C21: an extraction that completes yields one mesh per valid placement of
\* every part (not only the first placement of a part), each tagged with the
\* part's identifier and the placement's geometry identifier, in the order
\* of the part index and then the placement index.  Stated for both
\* extractions the claim names: the one inside IfcLoaderService.loadIfcFile
\* and FragmentsService.generateGeometry of the first copy.
C21_EveryPlacementExtractedInOrder ==
  /\ ( DrawnLoadSettled /\ lastCall.outcome = "resolved" )
       => TagPairsOf(LoadedMeshes) = ExpectedTagPairs
  /\ ( lastCall.op = "FragmentsService.generateGeometry" /\ lastCall.outcome = "returned" )
       => TagPairsOf(lastCall.value) = ExpectedTagPairs

\* ------------------------------------------- properties of the setup race
\* The names of the typed errors: AppError and its subclasses, which carry
\* a code, a message and a recoverable flag.
TypedErrorNames == {"AppError", "IfcLoadError", "WasmLoadError"}

\* C22: every error initialize or loadIfcFile surfaces to its caller is a
\* typed error (an AppError or a subclass of it, with a code, a message and
\* a recoverable flag), never a plain Error.
C22_SurfacedErrorsAreTyped ==
  ( lastCall.op \in {"initialize", "loadIfcFile"} /\ lastCall.outcome = "rejected" )
    => /\ lastCall.error.name \in TypedErrorNames
       /\ lastCall.error.code \in {"IFC_LOAD_FAILED", "WASM_LOAD_FAILED"}
       /\ lastCall.error.recoverable \in BOOLEAN

\* C23: at most one engine setup (a pending Init call) is in flight.
C23_AtMostOneSetupInFlight ==
  Cardinality(PendingInits) <= 1

\* C24: isInitialized is set only while the loader holds an engine whose
\* Init has resolved, so a load that passes the guard never calls OpenModel
\* on a null engine or on one that is not set up.
C24_InitializedImpliesEngineSetUp ==
  /\ isInitialized => ( ifcApi # null /\ engines[ifcApi].init = "ok" )
  /\ ( Last("loadIfcFile", "call") /\ lastCall.outcome = "suspended" )
       => ( ifcApi # null /\ engines[ifcApi].init = "ok" )

\* -------------------------------------- properties of the progress events
\* The percent values of the five checkpoints of loadIfcFile, in order.
Checkpoints == <<10, 30, 50, 90, 100>>

\* The percent values of a sequence of progress events.
PercentsOf(events) == [k \in 1..Len(events) |-> events[k].percent]

IsPrefix(s, t) ==
  Len(s) <= Len(t) /\ s = SubSeq(t, 1, Len(s))

\* The last checkpoint passed before the statement that throws the given
\* error is reached.
CheckpointBefore(thrown) ==
  CASE thrown.message = "arrayBuffer rejected" -> 10
    [] thrown.message \in {"ifcApi is null", "engine not set up", "OpenModel threw"} -> 30
    [] thrown.message = "LoadAllGeometry threw" -> 50
    [] thrown.message = "setFromObject threw" -> 90

\* A sink received exactly the events up to and including percent.
EmittedUpTo(percent) ==
  /\ IsPrefix(PercentsOf(lastCall.events), Checkpoints)
  /\ lastCall.events # << >>
  /\ lastCall.events[Len(lastCall.events)].percent = percent

\* The sink of the last loadIfcFile step received the 100 event.
CompleteEmitted ==
  \E k \in 1..Len(lastCall.events) : lastCall.events[k].percent = 100

\* C26 as stated: the percents a loadIfcFile call delivers are a prefix of
\* 10, 30, 50, 90, 100, and the 100 event is emitted only by a call that
\* then returns a model.
C26_CompleteOnlyWhenModelReturned ==
  lastCall.op = "loadIfcFile"
    => /\ IsPrefix(PercentsOf(lastCall.events), Checkpoints)
       /\ CompleteEmitted
            => ( lastCall.outcome = "resolved" /\ lastCall.model # undefined )

\* C26 amended: the percents a loadIfcFile call delivers are a prefix of
\* 10, 30, 50, 90, 100; a call that failed emitted nothing after the
\* checkpoint that precedes the failing statement; and a call that emitted
\* the 100 event had closed the document and either returns a model or was
\* failed by the sink itself throwing on an event.
C26_ProgressIsPrefixOfCheckpoints ==
  lastCall.op = "loadIfcFile"
    => /\ IsPrefix(PercentsOf(lastCall.events), Checkpoints)
       /\ ( /\ lastCall.outcome = "rejected"
            /\ lastCall.hasSink
            /\ lastCall.thrown.name # "undefined"
            /\ lastCall.thrown # Error("progress sink threw") )
            => EmittedUpTo(CheckpointBefore(lastCall.thrown))
       /\ CompleteEmitted
            => /\ lastCall.closed
               /\ \/ lastCall.outcome = "resolved" /\ lastCall.model # undefined
                  \/ /\ lastCall.outcome = "rejected"
                     /\ lastCall.thrown = Error("progress sink threw")
                     /\ lastCall.model = undefined

\* C26 witness: a load delivered all five events and was then rejected,
\* because its sink threw on the 100 event.
C26_Witness ==
  /\ Last("loadIfcFile", "resume")
  /\ PercentsOf(lastCall.events) = Checkpoints
  /\ lastCall.outcome = "rejected"
  /\ lastCall.thrown = Error("progress sink threw")
  /\ lastCall.closed

\* ------------------------------- properties of the order within one load
\* The sink events and engine calls of a complete loadIfcFile call with a
\* sink, in the order the claim gives.
SinkAndEngineOrder ==
  << Occurred("progress", "reading"),
     Occurred("progress", "parsing"),
     Occurred("engine", "OpenModel"),
     Occurred("progress", "geometry"),
     Occurred("engine", "LoadAllGeometry"),
     Occurred("progress", "rendering"),
     Occurred("engine", "CloseModel"),
     Occurred("progress", "complete") >>

IsEngineCall(occurred) == occurred.kind = "engine"

\* The place of an entry in order, 0 when it did not occur.
PlaceOf(order, occurred) ==
  IF \E k \in 1..Len(order) : order[k] = occurred
  THEN CHOOSE k \in 1..Len(order) : order[k] = occurred
  ELSE 0

\* C27: within one loadIfcFile call the 30/parsing event precedes OpenModel,
\* OpenModel precedes the 50/geometry event and the geometry extraction, the
\* extraction precedes the 90/rendering event, and CloseModel comes after
\* the 90 event and before the 100/complete event: what the call did is a
\* prefix of that one order (of its engine calls when no sink was given),
\* the placements are visited only after LoadAllGeometry, and a sink that
\* has seen 'complete' finds the document handle closed.
C27_SinkAndEngineEventsOrdered ==
  lastCall.op = "loadIfcFile"
    => /\ IsPrefix(lastCall.order,
                   IF lastCall.hasSink
                   THEN SinkAndEngineOrder
                   ELSE SelectSeq(SinkAndEngineOrder, IsEngineCall))
       /\ lastCall.opened <=> PlaceOf(lastCall.order, Occurred("engine", "OpenModel")) > 0
       /\ lastCall.visits # << >>
            => PlaceOf(lastCall.order, Occurred("engine", "LoadAllGeometry")) > 0
       /\ lastCall.closed <=> PlaceOf(lastCall.order, Occurred("engine", "CloseModel")) > 0
       /\ PlaceOf(lastCall.order, Occurred("progress", "complete")) > 0
            => /\ lastCall.closed
               /\ PlaceOf(lastCall.order, Occurred("engine", "CloseModel"))
                    < PlaceOf(lastCall.order, Occurred("progress", "complete"))

\* C27 witness: a load with a sink resolved after all eight sink events and
\* engine calls, with meshes extracted.
C27_Witness ==
  /\ Last("loadIfcFile", "resume")
  /\ lastCall.outcome = "resolved"
  /\ lastCall.hasSink
  /\ lastCall.order = SinkAndEngineOrder
  /\ lastCall.visits # << >>
  /\ lastCall.closed

\* --------------------------------------- properties of dispose and the load
\* C30: a suspended loadIfcFile call that resumes while the loader holds
\* no engine (dispose was called during its file read and no initialize
\* followed) never returns a model: it rejects with an IfcLoadError that
\* carries the file's name and size, no document was opened, and its sink
\* got no event beyond 10 and 30 (both of them when the read succeeded).
C30_LoadResumedAfterDisposeRejects ==
  [][ ( Step("loadIfcFile", "resume") /\ ifcApi = null )
        => /\ lastCall'.outcome = "rejected"
           /\ lastCall'.model = undefined
           /\ lastCall'.error.name = "IfcLoadError"
           /\ lastCall'.error.context = [fileName |-> lastCall'.arg.name,
                                         fileSize |-> lastCall'.arg.size]
           /\ ~lastCall'.opened
           /\ PercentsOf(lastCall'.events) \in {<< >>, <<10>>, <<10, 30>>}
           /\ ( lastCall'.hasSink /\ lastCall'.thrown.message # "arrayBuffer rejected" )
                => PercentsOf(lastCall'.events) = <<10, 30>>
    ]_vars

\* C30 witness: after a successful setup and a dispose during the file read,
\* a load with a sink was resumed and rejected at OpenModel on the null
\* engine, having emitted 10 and 30.
C30_Witness ==
  /\ Last("loadIfcFile", "resume")
  /\ ifcApi = null /\ ~isInitialized
  /\ SucceededInits # {}
  /\ lastCall.outcome = "rejected"
  /\ lastCall.thrown = [name |-> "TypeError", message |-> "ifcApi is null"]
  /\ PercentsOf(lastCall.events) = <<10, 30>>

\* C29: dispose leaves isInitialized and isInitializing false and ifcApi
\* null whatever the state before; a dispose in that state changes nothing;
\* and from then on a loadIfcFile call is accepted only once an initialize
\* made after the dispose has succeeded, that is, once the engine the
\* loader holds (dispose dropped the earlier one) has completed its Init:
\* until then the call is rejected with the not-initialized error.
C29_DisposeReturnsToUninitialized ==
  [][ /\ Step("dispose", "call")
         => /\ ~isInitialized' /\ ~isInitializing' /\ ifcApi' = null
            /\ ( ~isInitialized /\ ~isInitializing /\ ifcApi = null )
                 => LoaderState' = LoaderState
      /\ ( /\ Step("loadIfcFile", "call")
           /\ ifcApi = null \/ engines[ifcApi].init # "ok" )
         => /\ lastCall'.outcome = "rejected"
            /\ lastCall'.error.message = "IFC Loader not initialized"
            /\ LoaderState' = LoaderState
    ]_vars

\* ------------------------------------------- properties of the setup flag
\* C28: the continuation of initialize clears isInitializing when Init has
\* settled, whether it resolved or rejected; the flag is set only while
\* some Init is pending, so an initialize call is rejected as already in
\* progress only while a setup is pending; and, every pending Init
\* settling, a set flag is eventually cleared.
C28_InitializingFlagCleared ==
  /\ [][ Step("initialize", "resume") => ~isInitializing' ]_vars
  /\ [](isInitializing => PendingInits # {})
  /\ []( ( /\ Last("initialize", "call")
           /\ lastCall.outcome = "rejected" )
         => ( isInitializing /\ PendingInits # {} ) )
  /\ ( isInitializing ~> ~isInitializing )

\* C28 witness: a setup failed and settled, and a later initialize call was
\* not rejected: it started a new setup.
C28_Witness ==
  /\ Last("initialize", "call")
  /\ lastCall.outcome = "suspended"
  /\ isInitializing
  /\ \E e \in DOMAIN engines : engines[e].init = "failed"

\* ------------------------------------------------ properties of the logging
\* C25: when initialize has succeeded, the logger has received from that
\* call an info call with the context 'IfcLoaderService' whose message
\* contains 'initialized' and which has a data object as third argument.
C25_InitializedLoggedWithData ==
  ( Last("initialize", "resume") /\ lastCall.outcome = "resolved" )
    => \E k \in 1..Len(lastCall.logged) :
         /\ lastCall.logged[k].level = "info"
         /\ lastCall.logged[k].context = "IfcLoaderService"
         /\ \E w \in 1..Len(lastCall.logged[k].message) :
              lastCall.logged[k].message[w] = "initialized"
         /\ lastCall.logged[k].data # undefined

\* ------------------------------------------ properties of FragmentsService
\* The bytes of the file the group was built from.
BytesOfGroup(g) == [bytesOf |-> groups[g].name]

\* A FragmentsService.loadIfcFile step that settled with null.
FragmentsLoadFailed ==
  /\ lastCall'.op = "FragmentsService.loadIfcFile"
  /\ lastCall'.outcome # "suspended"
  /\ lastCall'.value = null

\* C31: exportFragments returns the bytes of the file from which the
\* current model group (getCurrentModel) was built, whatever loads
\* succeeded and failed before; and a load that fails changes neither the
\* bytes kept for export nor the current model group.
C31_ExportMatchesCurrentModel ==
  [][ /\ ( /\ Step("FragmentsService.exportFragments", "call")
           /\ fragments.currentModelGroup # null )
         => lastCall'.value = BytesOfGroup(fragments.currentModelGroup)
      /\ FragmentsLoadFailed
         => /\ fragments'.currentModelData = fragments.currentModelData
            /\ fragments'.currentModelGroup = fragments.currentModelGroup
    ]_vars

\* C32: the scene holds at most one model group, and a group it holds is
\* the current one (the one getCurrentModel returns), which is in the scene
\* and not disposed; every other group built so far (replaced by a later
\* load or removed by dispose) is out of the scene and disposeGroup has
\* run on it exactly once, disposing the geometry and the material of each
\* of its meshes once.
C32_SceneHoldsOnlyCurrentGroup ==
  /\ Cardinality(scene) <= 1
  /\ \A g \in scene : g = fragments.currentModelGroup
  /\ fragments.currentModelGroup # null
       => /\ fragments.currentModelGroup \in scene
          /\ groups[fragments.currentModelGroup].disposeGroupCalls = 0
  /\ \A g \in DOMAIN groups :
       g # fragments.currentModelGroup
         => /\ g \notin scene
            /\ groups[g].disposeGroupCalls = 1
  /\ lastCall.op = "FragmentsService.getCurrentModel"
       => lastCall.value = fragments.currentModelGroup

\* C32 witness: a first group was replaced by a second load, and dispose
\* then removed the second: both are out of the scene and disposed once.
C32_Witness ==
  /\ lastCall.op = "FragmentsService.dispose"
  /\ Len(groups) = 2
  /\ groups[1].children # << >>
  /\ groups[1].disposeGroupCalls = 1 /\ groups[2].disposeGroupCalls = 1
  /\ scene = {}
  /\ fragments.currentModelGroup = null

\* ------------------------------------------- properties of the render loop
\* One of the four objects startRenderLoop needs is missing: the service
\* was not initialized yet, or was disposed since.
ThreejsNotReady ==
  ~threejs.renderer \/ ~threejs.scene \/ ~threejs.camera \/ ~threejs.controls

\* C33: dispose leaves no animation-frame callback of the render loop
\* scheduled, however many startRenderLoop calls were made before, so that
\* no run of animate (with its render, onBeforeRender and onAfterRender
\* calls) happens on a service that is not initialized; and startRenderLoop
\* on such a service schedules nothing and calls nothing.
C33_NoFrameAfterDispose ==
  [][ /\ Step("ThreejsService.dispose", "call") => frames' = {}
      /\ Step("animate", "call") => ~ThreejsNotReady
      /\ ( Step("ThreejsService.startRenderLoop", "call") /\ ThreejsNotReady )
           => ( frames' = frames /\ lastCall'.order = << >> )
    ]_vars

\* ------------------------------------------------ properties of the history
\* The four methods that log.
LogOps ==
  {"LoggerService.debug", "LoggerService.info", "LoggerService.warn", "LoggerService.error"}

\* The history is the last so many accepted entries, oldest first.
MostRecentAccepted ==
  \A i \in 1..Len(logHistory) :
    logHistory[i].timestamp = accepted - Len(logHistory) + i

\* The step is a call of one of the four methods at a level that is
\* accepted, or not.
LogStep(isAccepted) ==
  /\ lastCall'.op \in LogOps
  /\ isAccepted = (logger.enabled /\ lastCall'.arg.level >= logger.minLevel)

\* The history after one more accepted entry: the entry comes last, and the
\* oldest entry is dropped when the history was full.
WithEntry(history, entry) ==
  IF Len(history) = 100
    THEN Tail(history) \o <<entry>>
    ELSE history \o <<entry>>

\* C37: the history never holds more than 100 entries and always is the most
\* recent accepted entries in the order they were logged: an accepted call
\* puts its entry last and drops the oldest entry of a full history, and a
\* call below the minimum level, or made while logging is disabled, leaves
\* the history as it was.
C37_HistoryIsBoundedAndRecent ==
  /\ [](Len(logHistory) <= 100 /\ MostRecentAccepted)
  /\ [][ /\ LogStep(FALSE) => logHistory' = logHistory
         /\ LogStep(TRUE) =>
              /\ Len(logHistory') >= 1
              /\ logHistory'[Len(logHistory')].level = lastCall'.arg.level
              /\ logHistory'[Len(logHistory')].message = lastCall'.arg.message
              /\ logHistory' = WithEntry(logHistory, logHistory'[Len(logHistory')])
     ]_vars

\* An entry was accepted by a full history, whose oldest entry is gone.
C37_Witness ==
  /\ lastCall.op = "LoggerService.error"
  /\ Len(logHistory) = 100
  /\ logHistory[1].timestamp = 2
  /\ accepted = 101

\* ------------------------------------------- properties of AppErrorHandler
\* The listeners of the onError calls whose returned function was not
\* called yet, in the order of the onError calls.
RECURSIVE StillRegistered(_)
StillRegistered(calls) ==
  IF calls = << >>
    THEN << >>
    ELSE IF Head(calls).unsubscribed
      THEN StillRegistered(Tail(calls))
      ELSE <<Head(calls).listener>> \o StillRegistered(Tail(calls))

\* No registered listener unsubscribes on its own: the functions onError
\* returned are called by the code that registered the listeners only.
NoListenerUnsubscribes ==
  \A r \in DOMAIN registrations : registrations[r].listener.does # "unsubscribe"

\* C34: the function an onError call returns removes the registration of
\* that call and nothing else, however often it is called and also when the
\* same listener was registered more than once: the listeners registered
\* are those of the onError calls whose function was never called, in the
\* order of the onError calls.
C34_UnsubscribeRemovesOwnRegistration ==
  NoListenerUnsubscribes => errorListeners = StillRegistered(registrations)

\* How often a listener occurs in a sequence of listeners.
Occurrences(listener, listeners) ==
  Cardinality({i \in DOMAIN listeners : listeners[i] = listener})

\* C36: when a listener calls its own unsubscribe function while handleError
\* notifies, every other listener registered when handleError started is
\* notified exactly once for each of its registrations.
C36_OthersNotifiedDespiteUnsubscribe ==
  [][ Step("AppErrorHandler.handleError", "call") =>
        \A i \in DOMAIN lastCall'.visits :
          lastCall'.visits[i].does = "unsubscribe" =>
            \A other \in Listeners \ {lastCall'.visits[i]} :
              Occurrences(other, lastCall'.visits) = Occurrences(other, errorListeners)
    ]_vars

\* C35: handleError calls every listener registered at the time, once and
\* in the order of registration, with an AppError made from what it was
\* handed (an AppError as it is, an Error or another value as an
\* UNKNOWN_ERROR with its message), and returns, whether listeners throw
\* or not.
C35_EveryListenerNotifiedInOrder ==
  [][ Step("AppErrorHandler.handleError", "call") =>
        /\ lastCall'.visits = errorListeners
        /\ lastCall'.outcome = "returned"
        /\ lastCall'.thrown = undefined
        /\ instanceofAppError(lastCall'.value)
        /\ instanceofAppError(lastCall'.arg) => lastCall'.value = lastCall'.arg
        /\ ~instanceofAppError(lastCall'.arg) => lastCall'.value.code = "UNKNOWN_ERROR"
    ]_vars

====
